---- MODULE Spec2Model ----
(***************************************************************************)
(* The chess rules engine of main.py (classes Move and Board): FEN parsing *)
(* and position signatures, attack detection, pseudo-legal and legal move  *)
(* generation, move application, push/undo history, UCI move entry and     *)
(* game-status classification.                                             *)
(*                                                                         *)
(* Encoding.  A string of the program is a sequence of one-character       *)
(* strings.  A square is the pair <<rank, file>>, both in 0..7.  Python's  *)
(* None is the string "None" where the other values are strings (a board   *)
(* cell, Move.captured, Move.promotion, a return value) and the empty      *)
(* tuple <<>> (NoSquare) where the other values are squares.               *)
(***************************************************************************)
EXTENDS Integers, Sequences, FiniteSets, Bags, TLC

VARIABLES board, turn, castling_rights, en_passant_target, halfmove_clock,
          fullmove_number, history, fen_history, ret,
          full_history_data, selected, animating, game_over, timers

vars == <<board, turn, castling_rights, en_passant_target, halfmove_clock,
          fullmove_number, history, fen_history, ret,
          full_history_data, selected, animating, game_over, timers>>

\* ------------------------------------------------------------ constants
FILES == <<"a", "b", "c", "d", "e", "f", "g", "h">>

RANKS == <<"1", "2", "3", "4", "5", "6", "7", "8">>

WHITE == "w"

BLACK == "b"

None == "None"

NoSquare == <<>>

\* ------------------------------------------------------ string helpers
\* str.isupper / str.upper / str.lower of a one-character string
UpperLetters == <<"A", "B", "C", "D", "E", "F", "G", "H", "K", "N", "P", "Q", "R", "W", "X">>

LowerLetters == <<"a", "b", "c", "d", "e", "f", "g", "h", "k", "n", "p", "q", "r", "w", "x">>

Digits == <<"0", "1", "2", "3", "4", "5", "6", "7", "8", "9">>

\* seq.index(ch) of Python, 0-based; -1 stands for the ValueError
IndexOf(seq, ch) ==
  IF \E i \in 1..Len(seq) : seq[i] = ch
  THEN (CHOOSE i \in 1..Len(seq) : seq[i] = ch /\ \A j \in 1..(i - 1) : seq[j] # ch) - 1
  ELSE -1

IsUpper(ch) == IndexOf(UpperLetters, ch) >= 0

IsDigit(ch) == IndexOf(Digits, ch) >= 0

Upper(ch) ==
  IF IndexOf(LowerLetters, ch) >= 0 THEN UpperLetters[IndexOf(LowerLetters, ch) + 1] ELSE ch

Lower(ch) ==
  IF IndexOf(UpperLetters, ch) >= 0 THEN LowerLetters[IndexOf(UpperLetters, ch) + 1] ELSE ch

RECURSIVE Concat(_)
\* list.extend / += over a list of lists, in order
Concat(ss) == IF ss = <<>> THEN <<>> ELSE Head(ss) \o Concat(Tail(ss))

Abs(x) == IF x < 0 THEN -x ELSE x

\* ------------------------------------------------------------- Move
Move(from_sq, to_sq, piece, captured, promotion, is_en_passant, is_castle) ==
  [from_sq |-> from_sq, to_sq |-> to_sq, piece |-> piece, captured |-> captured,
   promotion |-> promotion, is_en_passant |-> is_en_passant, is_castle |-> is_castle]

\* a plausible slip: the promotion letter is left off the code
UciWithoutPromotion(m) ==
  <<FILES[m.from_sq[2] + 1], RANKS[m.from_sq[1] + 1],
    FILES[m.to_sq[2] + 1], RANKS[m.to_sq[1] + 1]>>

\* Move.uci
Uci(m) ==
  <<FILES[m.from_sq[2] + 1], RANKS[m.from_sq[1] + 1],
    FILES[m.to_sq[2] + 1], RANKS[m.to_sq[1] + 1]>>
  \o (IF m.promotion # None THEN <<Lower(m.promotion)>> ELSE <<>>)

\* ------------------------------------------------------------- Board
EmptyBoard == [r \in 0..7 |-> [c \in 0..7 |-> None]]

in_bounds(r, c) == 0 <= r /\ r < 8 /\ 0 <= c /\ c < 8

piece_color(p) == IF IsUpper(p) THEN WHITE ELSE BLACK

Opponent(color) == IF color = WHITE THEN BLACK ELSE WHITE

\* find_king: the first square in row-major order holding the king, or NoSquare
find_king(b, color) ==
  LET king == IF color = WHITE THEN "K" ELSE "k"
      at == {sq \in (0..7) \X (0..7) : b.board[sq[1]][sq[2]] = king}
  IN IF at = {} THEN NoSquare
     ELSE CHOOSE sq \in at : \A o \in at : sq[1] < o[1] \/ (sq[1] = o[1] /\ sq[2] <= o[2])

\* a plausible slip: the knight is written with the king's letter
PromoLettersKingForKnight == <<"Q", "R", "B", "K">>

PromoLetters == <<"Q", "R", "B", "N">>

\* a plausible slip: the last of the eight jumps, (2, -1), is left out
SevenKnightOffsets == <<<<2, 1>>, <<1, 2>>, <<-1, 2>>, <<-2, 1>>, <<-2, -1>>, <<-1, -2>>, <<1, -2>>>>

KnightOffsets == <<<<2, 1>>, <<1, 2>>, <<-1, 2>>, <<-2, 1>>, <<-2, -1>>, <<-1, -2>>, <<1, -2>>, <<2, -1>>>>

KingOffsets == <<<<-1, -1>>, <<-1, 0>>, <<-1, 1>>, <<0, -1>>, <<0, 1>>, <<1, -1>>, <<1, 0>>, <<1, 1>>>>

DiagonalDirections == <<<<1, 1>>, <<1, -1>>, <<-1, 1>>, <<-1, -1>>>>

StraightDirections == <<<<1, 0>>, <<-1, 0>>, <<0, 1>>, <<0, -1>>>>

\* a plausible slip: the double push is tested beside the single push, not inside it, so
\* a pawn on its starting rank jumps over the piece in front of it
PawnMovesJumpOver(b, r, c, p) ==
  LET color == piece_color(p)
      dir_sign == IF color = WHITE THEN 1 ELSE -1
      nr == r + dir_sign
      promo(i) == IF color = WHITE THEN PromoLetters[i] ELSE Lower(PromoLetters[i])
      start_rank == IF color = WHITE THEN 1 ELSE 6
      nr2 == r + 2 * dir_sign
      pushes ==
        (IF in_bounds(nr, c) /\ b.board[nr][c] = None
         THEN (IF nr = 0 \/ nr = 7
               THEN [i \in 1..4 |-> Move(<<r, c>>, <<nr, c>>, p, None, promo(i), FALSE, FALSE)]
               ELSE <<Move(<<r, c>>, <<nr, c>>, p, None, None, FALSE, FALSE)>>)
         ELSE <<>>)
        \o (IF r = start_rank /\ in_bounds(nr2, c) /\ b.board[nr2][c] = None
            THEN <<Move(<<r, c>>, <<nr2, c>>, p, None, None, FALSE, FALSE)>>
            ELSE <<>>)
      captures(dc) ==
        LET nc == c + dc
        IN IF ~in_bounds(nr, nc) THEN <<>>
           ELSE LET target == b.board[nr][nc]
                IN IF target # None /\ piece_color(target) # color
                   THEN (IF nr = 0 \/ nr = 7
                         THEN [i \in 1..4 |->
                                 Move(<<r, c>>, <<nr, nc>>, p, target, promo(i), FALSE, FALSE)]
                         ELSE <<Move(<<r, c>>, <<nr, nc>>, p, target, None, FALSE, FALSE)>>)
                   ELSE <<>>
      en_passant ==
        IF b.en_passant_target # NoSquare
        THEN LET ep_r == b.en_passant_target[1]
                 ep_c == b.en_passant_target[2]
             IN IF ep_r = r + dir_sign /\ Abs(ep_c - c) = 1
                THEN LET target == b.board[r][ep_c]
                     IN IF target # None /\ Upper(target) = "P" /\ piece_color(target) # color
                        THEN <<Move(<<r, c>>, <<ep_r, ep_c>>, p, target, None, TRUE, FALSE)>>
                        ELSE <<>>
                ELSE <<>>
        ELSE <<>>
  IN pushes \o captures(-1) \o captures(1) \o en_passant

\* _piece_moves, pt == 'P'
PawnMoves(b, r, c, p) ==
  LET color == piece_color(p)
      dir_sign == IF color = WHITE THEN 1 ELSE -1
      nr == r + dir_sign
      promo(i) == IF color = WHITE THEN PromoLetters[i] ELSE Lower(PromoLetters[i])
      start_rank == IF color = WHITE THEN 1 ELSE 6
      nr2 == r + 2 * dir_sign
      pushes ==
        IF in_bounds(nr, c) /\ b.board[nr][c] = None
        THEN (IF nr = 0 \/ nr = 7
              THEN [i \in 1..4 |-> Move(<<r, c>>, <<nr, c>>, p, None, promo(i), FALSE, FALSE)]
              ELSE <<Move(<<r, c>>, <<nr, c>>, p, None, None, FALSE, FALSE)>>)
             \o (IF r = start_rank /\ in_bounds(nr2, c) /\ b.board[nr2][c] = None
                 THEN <<Move(<<r, c>>, <<nr2, c>>, p, None, None, FALSE, FALSE)>>
                 ELSE <<>>)
        ELSE <<>>
      captures(dc) ==
        LET nc == c + dc
        IN IF ~in_bounds(nr, nc) THEN <<>>
           ELSE LET target == b.board[nr][nc]
                IN IF target # None /\ piece_color(target) # color
                   THEN (IF nr = 0 \/ nr = 7
                         THEN [i \in 1..4 |->
                                 Move(<<r, c>>, <<nr, nc>>, p, target, promo(i), FALSE, FALSE)]
                         ELSE <<Move(<<r, c>>, <<nr, nc>>, p, target, None, FALSE, FALSE)>>)
                   ELSE <<>>
      en_passant ==
        IF b.en_passant_target # NoSquare
        THEN LET ep_r == b.en_passant_target[1]
                 ep_c == b.en_passant_target[2]
             IN IF ep_r = r + dir_sign /\ Abs(ep_c - c) = 1
                THEN LET target == b.board[r][ep_c]
                     IN IF target # None /\ Upper(target) = "P" /\ piece_color(target) # color
                        THEN <<Move(<<r, c>>, <<ep_r, ep_c>>, p, target, None, TRUE, FALSE)>>
                        ELSE <<>>
                ELSE <<>>
        ELSE <<>>
  IN pushes \o captures(-1) \o captures(1) \o en_passant

\* _piece_moves, the step loops of pt == 'N' and pt == 'K'
StepMoves(b, r, c, p, offsets) ==
  LET color == piece_color(p)
      step(i) ==
        LET nr == r + offsets[i][1]
            nc == c + offsets[i][2]
        IN IF ~in_bounds(nr, nc) THEN <<>>
           ELSE LET target == b.board[nr][nc]
                IN IF target = None \/ piece_color(target) # color
                   THEN <<Move(<<r, c>>, <<nr, nc>>, p, target, None, FALSE, FALSE)>>
                   ELSE <<>>
  IN Concat([i \in 1..Len(offsets) |-> step(i)])

RECURSIVE RayPastOwnPiece(_, _, _, _, _, _, _, _)
\* a plausible slip: the break sits inside the test for an opposing piece, so the walk
\* goes on behind a piece of the mover's own colour
RayPastOwnPiece(b, r, c, p, nr, nc, dr, dc) ==
  IF ~in_bounds(nr, nc) THEN <<>>
  ELSE LET target == b.board[nr][nc]
       IN IF target = None
          THEN <<Move(<<r, c>>, <<nr, nc>>, p, None, None, FALSE, FALSE)>>
               \o RayPastOwnPiece(b, r, c, p, nr + dr, nc + dc, dr, dc)
          ELSE IF piece_color(target) # piece_color(p)
               THEN <<Move(<<r, c>>, <<nr, nc>>, p, target, None, FALSE, FALSE)>>
               ELSE RayPastOwnPiece(b, r, c, p, nr + dr, nc + dc, dr, dc)

RECURSIVE Ray(_, _, _, _, _, _, _, _)
\* _piece_moves, the while loop of one direction of a sliding piece
Ray(b, r, c, p, nr, nc, dr, dc) ==
  IF ~in_bounds(nr, nc) THEN <<>>
  ELSE LET target == b.board[nr][nc]
       IN IF target = None
          THEN <<Move(<<r, c>>, <<nr, nc>>, p, None, None, FALSE, FALSE)>>
               \o Ray(b, r, c, p, nr + dr, nc + dc, dr, dc)
          ELSE IF piece_color(target) # piece_color(p)
               THEN <<Move(<<r, c>>, <<nr, nc>>, p, target, None, FALSE, FALSE)>>
               ELSE <<>>

\* _piece_moves, pt in ('B', 'R', 'Q')
SliderMoves(b, r, c, p) ==
  LET pt == Upper(p)
      directions == (IF pt \in {"B", "Q"} THEN DiagonalDirections ELSE <<>>)
                    \o (IF pt \in {"R", "Q"} THEN StraightDirections ELSE <<>>)
  IN Concat([i \in 1..Len(directions) |->
               Ray(b, r, c, p, r + directions[i][1], c + directions[i][2],
                   directions[i][1], directions[i][2])])

\* _piece_moves(check_legality=False): every piece pattern except castling
AttackMoves(b, r, c, p) ==
  LET pt == Upper(p)
  IN IF pt = "P" THEN PawnMoves(b, r, c, p)
     ELSE IF pt = "N" THEN StepMoves(b, r, c, p, KnightOffsets)
     ELSE IF pt \in {"B", "R", "Q"} THEN SliderMoves(b, r, c, p)
     ELSE IF pt = "K" THEN StepMoves(b, r, c, p, KingOffsets)
     ELSE <<>>

\* is_square_attacked, the test `m.to_sq == sq` over the moves of one piece
Reaches(ms, sq) == \E i \in 1..Len(ms) : ms[i].to_sq = sq

is_square_attacked(b, sq, by_color) ==
  \E r \in 0..7, c \in 0..7 :
    /\ b.board[r][c] # None
    /\ piece_color(b.board[r][c]) = by_color
    /\ Reaches(AttackMoves(b, r, c, b.board[r][c]), sq)

\* king_in_check, given the square find_king returned
KingAttacked(b, kp, color) ==
  IF kp = NoSquare THEN TRUE ELSE is_square_attacked(b, kp, Opponent(color))

\* a plausible slip: without a king there is nothing to attack, so no check
KingInCheckNeedsKing(b, color) ==
  /\ find_king(b, color) # NoSquare
  /\ is_square_attacked(b, find_king(b, color), Opponent(color))

king_in_check(b, color) == KingAttacked(b, find_king(b, color), color)

\* a plausible slip: on the queen side only the two squares the king crosses are looked
\* at, the square beside the rook is not
CastlingPastKnightSquare(b, r, c, p) ==
  LET color == piece_color(p)
      rank == IF color = WHITE THEN 0 ELSE 7
      king_side == IF color = WHITE THEN b.castling_rights.K ELSE b.castling_rights.k
      queen_side == IF color = WHITE THEN b.castling_rights.Q ELSE b.castling_rights.q
      own_rook(rook) == rook # None /\ Upper(rook) = "R" /\ piece_color(rook) = color
  IN IF <<r, c>> = <<rank, 4>>
     THEN (IF /\ king_side
              /\ b.board[rank][5] = None /\ b.board[rank][6] = None
              /\ own_rook(b.board[rank][7])
              /\ ~is_square_attacked(b, <<rank, 4>>, Opponent(color))
              /\ ~is_square_attacked(b, <<rank, 5>>, Opponent(color))
              /\ ~is_square_attacked(b, <<rank, 6>>, Opponent(color))
           THEN <<Move(<<r, c>>, <<rank, 6>>, p, None, None, FALSE, TRUE)>>
           ELSE <<>>)
          \o
          (IF /\ queen_side
              /\ b.board[rank][3] = None /\ b.board[rank][2] = None
              /\ own_rook(b.board[rank][0])
              /\ ~is_square_attacked(b, <<rank, 4>>, Opponent(color))
              /\ ~is_square_attacked(b, <<rank, 3>>, Opponent(color))
              /\ ~is_square_attacked(b, <<rank, 2>>, Opponent(color))
           THEN <<Move(<<r, c>>, <<rank, 2>>, p, None, None, FALSE, TRUE)>>
           ELSE <<>>)
     ELSE <<>>

\* _piece_moves, the castling block of pt == 'K' (check_legality=True)
CastlingMoves(b, r, c, p) ==
  LET color == piece_color(p)
      rank == IF color = WHITE THEN 0 ELSE 7
      king_side == IF color = WHITE THEN b.castling_rights.K ELSE b.castling_rights.k
      queen_side == IF color = WHITE THEN b.castling_rights.Q ELSE b.castling_rights.q
      own_rook(rook) == rook # None /\ Upper(rook) = "R" /\ piece_color(rook) = color
  IN IF <<r, c>> = <<rank, 4>>
     THEN (IF /\ king_side
              /\ b.board[rank][5] = None /\ b.board[rank][6] = None
              /\ own_rook(b.board[rank][7])
              /\ ~is_square_attacked(b, <<rank, 4>>, Opponent(color))
              /\ ~is_square_attacked(b, <<rank, 5>>, Opponent(color))
              /\ ~is_square_attacked(b, <<rank, 6>>, Opponent(color))
           THEN <<Move(<<r, c>>, <<rank, 6>>, p, None, None, FALSE, TRUE)>>
           ELSE <<>>)
          \o
          (IF /\ queen_side
              /\ b.board[rank][3] = None /\ b.board[rank][2] = None /\ b.board[rank][1] = None
              /\ own_rook(b.board[rank][0])
              /\ ~is_square_attacked(b, <<rank, 4>>, Opponent(color))
              /\ ~is_square_attacked(b, <<rank, 3>>, Opponent(color))
              /\ ~is_square_attacked(b, <<rank, 2>>, Opponent(color))
           THEN <<Move(<<r, c>>, <<rank, 2>>, p, None, None, FALSE, TRUE)>>
           ELSE <<>>)
     ELSE <<>>

\* _piece_moves
piece_moves(b, r, c, p, check_legality) ==
  AttackMoves(b, r, c, p)
  \o (IF Upper(p) = "K" /\ check_legality THEN CastlingMoves(b, r, c, p) ELSE <<>>)

\* a plausible slip: the en-passant capture takes the pawn off the destination square
\* (cap_r = to_r) instead of the square beside the capturing pawn
MakeMoveCapturesOnTarget(b, m) ==
  LET fr_r == m.from_sq[1]
      fr_c == m.from_sq[2]
      to_r == m.to_sq[1]
      to_c == m.to_sq[2]
      piece == b.board[fr_r][fr_c]
      clock == IF Upper(piece) = "P" \/ m.captured # None THEN 0 ELSE b.halfmove_clock + 1
      m1 == IF m.is_en_passant THEN [m EXCEPT !.captured = b.board[to_r][to_c]] ELSE m
      b1 == IF m.is_en_passant THEN [b.board EXCEPT ![to_r][to_c] = None] ELSE b.board
      b2 == IF m.is_castle /\ to_c = 6
            THEN [b1 EXCEPT ![to_r][5] = b1[to_r][7], ![to_r][7] = None]
            ELSE IF m.is_castle /\ to_c = 2
            THEN [b1 EXCEPT ![to_r][3] = b1[to_r][0], ![to_r][0] = None]
            ELSE b1
      m2 == IF b2[to_r][to_c] # None /\ ~m.is_en_passant
            THEN [m1 EXCEPT !.captured = b2[to_r][to_c]] ELSE m1
      b3 == [b2 EXCEPT ![to_r][to_c] = piece, ![fr_r][fr_c] = None]
      b4 == IF m.promotion # None THEN [b3 EXCEPT ![to_r][to_c] = m.promotion] ELSE b3
      ep == IF Upper(piece) = "P" /\ Abs(to_r - fr_r) = 2
            THEN <<(to_r + fr_r) \div 2, fr_c>> ELSE NoSquare
      cr1 == IF Upper(piece) = "K"
             THEN (IF IsUpper(piece)
                   THEN [b.castling_rights EXCEPT !.K = FALSE, !.Q = FALSE]
                   ELSE [b.castling_rights EXCEPT !.k = FALSE, !.q = FALSE])
             ELSE b.castling_rights
      corner(cr, rr, cc) ==
        [cr EXCEPT !.Q = IF rr = 0 /\ cc = 0 THEN FALSE ELSE @,
                   !.K = IF rr = 0 /\ cc = 7 THEN FALSE ELSE @,
                   !.q = IF rr = 7 /\ cc = 0 THEN FALSE ELSE @,
                   !.k = IF rr = 7 /\ cc = 7 THEN FALSE ELSE @]
      cr2 == IF Upper(piece) = "R" THEN corner(cr1, fr_r, fr_c) ELSE cr1
      cr3 == IF m2.captured # None /\ Upper(m2.captured) = "R"
             THEN corner(cr2, to_r, to_c) ELSE cr2
  IN [b |-> [b EXCEPT !.board = b4, !.halfmove_clock = clock,
                      !.en_passant_target = ep, !.castling_rights = cr3],
      m |-> m2]

\* a plausible slip: only a pawn move resets the clock, a capture counts on
ClockResetByPawnOnly(b, m, piece) == IF Upper(piece) = "P" THEN 0 ELSE b.halfmove_clock + 1

\* _make_move_internal, the halfmove clock after the move of `piece`
HalfmoveClock(b, m, piece) ==
  IF Upper(piece) = "P" \/ m.captured # None THEN 0 ELSE b.halfmove_clock + 1

\* _make_move_internal, the right of the corner <<rr, cc>> is cleared
ClearCorner(cr, rr, cc) ==
  [cr EXCEPT !.Q = IF rr = 0 /\ cc = 0 THEN FALSE ELSE @,
             !.K = IF rr = 0 /\ cc = 7 THEN FALSE ELSE @,
             !.q = IF rr = 7 /\ cc = 0 THEN FALSE ELSE @,
             !.k = IF rr = 7 /\ cc = 7 THEN FALSE ELSE @]

\* _make_move_internal, the rights after a king moved
KingMoved(cr, piece) ==
  IF Upper(piece) = "K"
  THEN (IF IsUpper(piece) THEN [cr EXCEPT !.K = FALSE, !.Q = FALSE]
        ELSE [cr EXCEPT !.k = FALSE, !.q = FALSE])
  ELSE cr

\* _make_move_internal, the rights after a rook left its square
RookMoved(cr, m, piece) ==
  IF Upper(piece) = "R" THEN ClearCorner(cr, m.from_sq[1], m.from_sq[2]) ELSE cr

\* _make_move_internal, the rights after a rook was captured
RookCaptured(cr, m) ==
  IF m.captured # None /\ Upper(m.captured) = "R"
  THEN ClearCorner(cr, m.to_sq[1], m.to_sq[2]) ELSE cr

\* a plausible slip: the capture of a rook on its corner is forgotten
RightsKeptOnCapture(cr, m, piece) == RookMoved(KingMoved(cr, piece), m, piece)

\* a plausible slip: castling is not taken for a king move, its rights stay
RightsKeptOnCastling(cr, m, piece) ==
  IF m.is_castle THEN cr ELSE RookCaptured(RookMoved(KingMoved(cr, piece), m, piece), m)

\* _make_move_internal, the castling rights after the move m of `piece`; m.captured is
\* filled in
UpdatedRights(cr, m, piece) == RookCaptured(RookMoved(KingMoved(cr, piece), m, piece), m)

\* a plausible slip: castling copies the rook beside the king and leaves it on its corner
MakeMoveKeepsCastledRook(b, m) ==
  LET fr_r == m.from_sq[1]
      fr_c == m.from_sq[2]
      to_r == m.to_sq[1]
      to_c == m.to_sq[2]
      piece == b.board[fr_r][fr_c]
      clock == HalfmoveClock(b, m, piece)
      m1 == IF m.is_en_passant THEN [m EXCEPT !.captured = b.board[fr_r][to_c]] ELSE m
      b1 == IF m.is_en_passant THEN [b.board EXCEPT ![fr_r][to_c] = None] ELSE b.board
      b2 == IF m.is_castle /\ to_c = 6
            THEN [b1 EXCEPT ![to_r][5] = b1[to_r][7]]
            ELSE IF m.is_castle /\ to_c = 2
            THEN [b1 EXCEPT ![to_r][3] = b1[to_r][0]]
            ELSE b1
      m2 == IF b2[to_r][to_c] # None /\ ~m.is_en_passant
            THEN [m1 EXCEPT !.captured = b2[to_r][to_c]] ELSE m1
      b3 == [b2 EXCEPT ![to_r][to_c] = piece, ![fr_r][fr_c] = None]
      b4 == IF m.promotion # None THEN [b3 EXCEPT ![to_r][to_c] = m.promotion] ELSE b3
      ep == IF Upper(piece) = "P" /\ Abs(to_r - fr_r) = 2
            THEN <<(to_r + fr_r) \div 2, fr_c>> ELSE NoSquare
      cr3 == UpdatedRights(b.castling_rights, m2, piece)
  IN [b |-> [b EXCEPT !.board = b4, !.halfmove_clock = clock,
                      !.en_passant_target = ep, !.castling_rights = cr3],
      m |-> m2]

\* _make_move_internal: the board after the move and the move as the call leaves it
\* (it fills in m.captured).  The caller passes a move whose origin holds a piece.
make_move_internal(b, m) ==
  LET fr_r == m.from_sq[1]
      fr_c == m.from_sq[2]
      to_r == m.to_sq[1]
      to_c == m.to_sq[2]
      piece == b.board[fr_r][fr_c]
      clock == HalfmoveClock(b, m, piece)
      m1 == IF m.is_en_passant THEN [m EXCEPT !.captured = b.board[fr_r][to_c]] ELSE m
      b1 == IF m.is_en_passant THEN [b.board EXCEPT ![fr_r][to_c] = None] ELSE b.board
      b2 == IF m.is_castle /\ to_c = 6
            THEN [b1 EXCEPT ![to_r][5] = b1[to_r][7], ![to_r][7] = None]
            ELSE IF m.is_castle /\ to_c = 2
            THEN [b1 EXCEPT ![to_r][3] = b1[to_r][0], ![to_r][0] = None]
            ELSE b1
      m2 == IF b2[to_r][to_c] # None /\ ~m.is_en_passant
            THEN [m1 EXCEPT !.captured = b2[to_r][to_c]] ELSE m1
      b3 == [b2 EXCEPT ![to_r][to_c] = piece, ![fr_r][fr_c] = None]
      b4 == IF m.promotion # None THEN [b3 EXCEPT ![to_r][to_c] = m.promotion] ELSE b3
      ep == IF Upper(piece) = "P" /\ Abs(to_r - fr_r) = 2
            THEN <<(to_r + fr_r) \div 2, fr_c>> ELSE NoSquare
      cr3 == UpdatedRights(b.castling_rights, m2, piece)
  IN [b |-> [b EXCEPT !.board = b4, !.halfmove_clock = clock,
                      !.en_passant_target = ep, !.castling_rights = cr3],
      m |-> m2]

\* generate_moves(legal=False): the pseudo-legal moves of the side to move, in board order
PseudoLegalMoves(b) ==
  Concat([i \in 1..64 |->
    LET r == (i - 1) \div 8
        c == (i - 1) % 8
        p == b.board[r][c]
    IN IF p = None \/ piece_color(p) # b.turn THEN <<>>
       ELSE piece_moves(b, r, c, p, TRUE)])

\* a plausible slip: the filter looks at the king of the side that did not move
LeavesOpponentKingSafe(b, m) ==
  ~king_in_check(make_move_internal(b, m).b, Opponent(b.turn))

\* generate_moves, the test of the legal filter on a copy of the board
LeavesKingSafe(b, m) == ~king_in_check(make_move_internal(b, m).b, b.turn)

\* a plausible slip: the filter is skipped and every pseudo-legal move is returned
KeepsEveryMove(b, moves) == moves

RECURSIVE LegalFilter(_, _)
\* generate_moves, the loop `for m in moves` of the legal filter
LegalFilter(b, moves) ==
  IF moves = <<>> THEN <<>>
  ELSE (IF LeavesKingSafe(b, Head(moves)) THEN <<Head(moves)>> ELSE <<>>)
       \o LegalFilter(b, Tail(moves))

generate_moves(b, legal) ==
  IF legal THEN LegalFilter(b, PseudoLegalMoves(b)) ELSE PseudoLegalMoves(b)

\* --------------------------------------------------- position signature
\* _fen_for_repetition, one rank: the cells from file c on, after `empty` empty cells
RECURSIVE RowString(_, _, _)
RowString(row, c, empty) ==
  IF c > 7 THEN (IF empty # 0 THEN <<Digits[empty + 1]>> ELSE <<>>)
  ELSE IF row[c] = None THEN RowString(row, c + 1, empty + 1)
  ELSE (IF empty # 0 THEN <<Digits[empty + 1]>> ELSE <<>>) \o <<row[c]>>
       \o RowString(row, c + 1, 0)

RECURSIVE Join(_, _)
\* sep.join(list of strings)
Join(ss, sep) ==
  IF ss = <<>> THEN <<>>
  ELSE IF Len(ss) = 1 THEN ss[1]
  ELSE ss[1] \o sep \o Join(Tail(ss), sep)

\* _fen_for_repetition, '/'.join(rows): the ranks from the eighth down to the first
Placement(b) == Join([i \in 1..8 |-> RowString(b.board[8 - i], 0, 0)], <<"/">>)

\* _fen_for_repetition, `cast`
CastlingField(b) ==
  LET letters == (IF b.castling_rights.K THEN <<"K">> ELSE <<>>)
                 \o (IF b.castling_rights.Q THEN <<"Q">> ELSE <<>>)
                 \o (IF b.castling_rights.k THEN <<"k">> ELSE <<>>)
                 \o (IF b.castling_rights.q THEN <<"q">> ELSE <<>>)
  IN IF letters = <<>> THEN <<"-">> ELSE letters

\* _fen_for_repetition, `ep`
EnPassantField(b) ==
  IF b.en_passant_target # NoSquare
  THEN <<FILES[b.en_passant_target[2] + 1], RANKS[b.en_passant_target[1] + 1]>>
  ELSE <<"-">>

\* a plausible slip: the signature is the full FEN, halfmove clock included
SignatureWithClock(b) ==
  Placement(b) \o <<" ">> \o <<IF b.turn = WHITE THEN "w" ELSE "b">>
  \o <<" ">> \o CastlingField(b) \o <<" ">> \o EnPassantField(b)
  \o <<" ">> \o <<Digits[((b.halfmove_clock \div 10) % 10) + 1], Digits[(b.halfmove_clock % 10) + 1]>>

\* a plausible slip: the signature leaves out the castling rights
SignatureWithoutRights(b) ==
  Placement(b) \o <<" ">> \o <<IF b.turn = WHITE THEN "w" ELSE "b">>
  \o <<" ">> \o EnPassantField(b)

fen_for_repetition(b) ==
  Placement(b) \o <<" ">> \o <<IF b.turn = WHITE THEN "w" ELSE "b">>
  \o <<" ">> \o CastlingField(b) \o <<" ">> \o EnPassantField(b)

\* ------------------------------------------------------------ set_fen
RECURSIVE SplitOn(_, _, _)
\* str.split(sep): the pieces of s between occurrences of sep, empty ones kept;
\* cur is the piece being read
SplitOn(s, sep, cur) ==
  IF s = <<>> THEN <<cur>>
  ELSE IF Head(s) = sep THEN <<cur>> \o SplitOn(Tail(s), sep, <<>>)
  ELSE SplitOn(Tail(s), sep, Append(cur, Head(s)))

\* str.split(): the pieces between runs of whitespace, empty ones dropped
SplitWhitespace(s) ==
  LET nonempty(x) == x # <<>>
  IN SelectSeq(SplitOn(s, " ", <<>>), nonempty)

\* a plausible slip: the ranks are read in the order written (rows for rows[::-1])
SameOrder(s) == s

Reverse(s) == [i \in 1..Len(s) |-> s[Len(s) + 1 - i]]

RECURSIVE DigitsValue(_, _)
DigitsValue(s, acc) ==
  IF s = <<>> THEN acc ELSE DigitsValue(Tail(s), 10 * acc + IndexOf(Digits, Head(s)))

\* int(s): ok is FALSE for the ValueError
ParseInt(s) ==
  LET body == IF s # <<>> /\ Head(s) = "-" THEN Tail(s) ELSE s
  IN IF body # <<>> /\ \A i \in 1..Len(body) : IsDigit(body[i])
     THEN [ok |-> TRUE,
           val |-> IF Head(s) = "-" THEN 0 - DigitsValue(body, 0) ELSE DigitsValue(body, 0)]
     ELSE [ok |-> FALSE, val |-> 0]

RECURSIVE FillRow(_, _, _, _)
\* set_fen, the inner loop over one rank string: the grid as the loop leaves it, and
\* whether the store self.board[r][file_idx] = ch raised IndexError
FillRow(grid, r, row, file_idx) ==
  IF row = <<>> THEN [grid |-> grid, exc |-> FALSE]
  ELSE IF IsDigit(Head(row))
  THEN FillRow(grid, r, Tail(row), file_idx + IndexOf(Digits, Head(row)))
  ELSE IF ~in_bounds(r, file_idx) THEN [grid |-> grid, exc |-> TRUE]
  ELSE FillRow([grid EXCEPT ![r][file_idx] = Head(row)], r, Tail(row), file_idx + 1)

RECURSIVE FillRows(_, _, _)
\* set_fen, the outer loop over rows[::-1]
FillRows(grid, rows, r) ==
  IF rows = <<>> THEN [grid |-> grid, exc |-> FALSE]
  ELSE LET one == FillRow(grid, r, Head(rows), 0)
       IN IF one.exc THEN one ELSE FillRows(one.grid, Tail(rows), r + 1)

\* a plausible slip: the two numbers are read in the wrong order, the fifth field into
\* the fullmove number and the sixth into the halfmove clock
SetFenFieldsSwapped(b, parts) ==
  LET b2 == [b EXCEPT !.turn = IF parts[2] = <<"w">> THEN WHITE ELSE BLACK]
      cast == parts[3]
      has(ch) == \E i \in 1..Len(cast) : cast[i] = ch
      b3 == [b2 EXCEPT !.castling_rights =
                         [K |-> has("K"), Q |-> has("Q"), k |-> has("k"), q |-> has("q")]]
      ep == parts[4]
      ep_ok == Len(ep) >= 2 /\ IndexOf(RANKS, ep[2]) >= 0 /\ IndexOf(FILES, ep[1]) >= 0
      b4 == [b3 EXCEPT !.en_passant_target =
                         IF ep # <<"-">> THEN <<IndexOf(RANKS, ep[2]), IndexOf(FILES, ep[1])>>
                         ELSE NoSquare]
      half == ParseInt(parts[6])
      full == ParseInt(parts[5])
      b5 == IF Len(parts) >= 6
            THEN [b4 EXCEPT !.halfmove_clock = half.val]
            ELSE [b4 EXCEPT !.halfmove_clock = 0, !.fullmove_number = 1]
      b6 == IF Len(parts) >= 6 THEN [b5 EXCEPT !.fullmove_number = full.val] ELSE b5
  IN IF Len(parts) < 2 THEN [b |-> b, exc |-> TRUE]
     ELSE IF Len(parts) < 3 THEN [b |-> b2, exc |-> TRUE]
     ELSE IF Len(parts) < 4 \/ (ep # <<"-">> /\ ~ep_ok) THEN [b |-> b3, exc |-> TRUE]
     ELSE IF Len(parts) >= 6 /\ ~half.ok THEN [b |-> b4, exc |-> TRUE]
     ELSE IF Len(parts) >= 6 /\ ~full.ok THEN [b |-> b5, exc |-> TRUE]
     ELSE [b |-> [b6 EXCEPT !.history = <<>>], exc |-> FALSE]

\* set_fen, after the grid loops: the statements from `self.turn = ...` on.  Fields
\* assigned before a raising statement keep their new values.
SetFenFields(b, parts) ==
  LET b2 == [b EXCEPT !.turn = IF parts[2] = <<"w">> THEN WHITE ELSE BLACK]
      cast == parts[3]
      has(ch) == \E i \in 1..Len(cast) : cast[i] = ch
      b3 == [b2 EXCEPT !.castling_rights =
                         [K |-> has("K"), Q |-> has("Q"), k |-> has("k"), q |-> has("q")]]
      ep == parts[4]
      ep_ok == Len(ep) >= 2 /\ IndexOf(RANKS, ep[2]) >= 0 /\ IndexOf(FILES, ep[1]) >= 0
      b4 == [b3 EXCEPT !.en_passant_target =
                         IF ep # <<"-">> THEN <<IndexOf(RANKS, ep[2]), IndexOf(FILES, ep[1])>>
                         ELSE NoSquare]
      half == ParseInt(parts[5])
      full == ParseInt(parts[6])
      b5 == IF Len(parts) >= 6
            THEN [b4 EXCEPT !.halfmove_clock = half.val]
            ELSE [b4 EXCEPT !.halfmove_clock = 0, !.fullmove_number = 1]
      b6 == IF Len(parts) >= 6 THEN [b5 EXCEPT !.fullmove_number = full.val] ELSE b5
  IN IF Len(parts) < 2 THEN [b |-> b, exc |-> TRUE]
     ELSE IF Len(parts) < 3 THEN [b |-> b2, exc |-> TRUE]
     ELSE IF Len(parts) < 4 \/ (ep # <<"-">> /\ ~ep_ok) THEN [b |-> b3, exc |-> TRUE]
     ELSE IF Len(parts) >= 6 /\ ~half.ok THEN [b |-> b4, exc |-> TRUE]
     ELSE IF Len(parts) >= 6 /\ ~full.ok THEN [b |-> b5, exc |-> TRUE]
     ELSE [b |-> [b6 EXCEPT !.history = <<>>], exc |-> FALSE]

\* set_fen, its last statement: the signature log restarts with the new position
SeedLog(r) ==
  IF r.exc THEN r
  ELSE [b |-> [r.b EXCEPT !.fen_history = <<fen_for_repetition(r.b)>>], exc |-> FALSE]

\* set_fen, from `self.board = ...` on, given the grid the loops left
SetFenGrid(b, parts, filled) ==
  IF filled.exc THEN [b |-> [b EXCEPT !.board = filled.grid], exc |-> TRUE]
  ELSE SeedLog(SetFenFields([b EXCEPT !.board = filled.grid], parts))

\* set_fen, given parts = fen.split()
SetFenParts(b, parts) ==
  IF Len(parts) < 1 THEN [b |-> b, exc |-> TRUE]
  ELSE SetFenGrid(b, parts, FillRows(EmptyBoard, Reverse(SplitOn(parts[1], "/", <<>>)), 0))

\* set_fen: the board object as the call leaves it, and whether it raised
set_fen(b, fen) == SetFenParts(b, SplitWhitespace(fen))

StartFen ==
  <<"r", "n", "b", "q", "k", "b", "n", "r", "/", "p", "p", "p", "p", "p", "p", "p", "p", "/",
    "8", "/", "8", "/", "8", "/", "8", "/",
    "P", "P", "P", "P", "P", "P", "P", "P", "/", "R", "N", "B", "Q", "K", "B", "N", "R",
    " ", "w", " ", "K", "Q", "k", "q", " ", "-", " ", "0", " ", "1">>

\* Board.__init__: the fields before set_fen / set_startpos runs
NewBoard ==
  [board |-> EmptyBoard, turn |-> WHITE,
   castling_rights |-> [K |-> TRUE, Q |-> TRUE, k |-> TRUE, q |-> TRUE],
   en_passant_target |-> NoSquare, halfmove_clock |-> 0, fullmove_number |-> 1,
   history |-> <<>>, fen_history |-> <<>>]

set_startpos(b) == set_fen(b, StartFen)

\* ------------------------------------------------------- push and undo
\* push_move, the snapshot `state`
Snapshot(b) ==
  [board |-> b.board, castling_rights |-> b.castling_rights,
   en_passant_target |-> b.en_passant_target, halfmove_clock |-> b.halfmove_clock,
   fullmove_number |-> b.fullmove_number, turn |-> b.turn]

\* push_move, its last statement
LogSignature(b) == [b EXCEPT !.fen_history = Append(@, fen_for_repetition(b))]

\* a plausible slip: after the move the castling rights are worked out again from where
\* the kings and rooks stand
PushMadeRightsFromPlacement(b, made) ==
  LogSignature([made.b EXCEPT !.history = Append(b.history, <<made.m, Snapshot(b)>>),
                              !.fullmove_number = IF b.turn = BLACK THEN @ + 1 ELSE @,
                              !.turn = Opponent(b.turn),
                              !.castling_rights =
                                 [K |-> made.b.board[0][4] = "K" /\ made.b.board[0][7] = "R",
                                  Q |-> made.b.board[0][4] = "K" /\ made.b.board[0][0] = "R",
                                  k |-> made.b.board[7][4] = "k" /\ made.b.board[7][7] = "r",
                                  q |-> made.b.board[7][4] = "k" /\ made.b.board[7][0] = "r"]])

\* a plausible slip: a move that sets no en-passant target leaves the old one standing
PushMadeKeepsTarget(b, made) ==
  LogSignature([made.b EXCEPT !.history = Append(b.history, <<made.m, Snapshot(b)>>),
                              !.fullmove_number = IF b.turn = BLACK THEN @ + 1 ELSE @,
                              !.turn = Opponent(b.turn),
                              !.en_passant_target =
                                 IF made.b.en_passant_target # NoSquare
                                 THEN made.b.en_passant_target ELSE b.en_passant_target])

\* a plausible slip: the side to move is flipped before the fullmove test, so the number
\* grows after White's moves
PushMadeCountsAfterFlip(b, made) ==
  LogSignature([made.b EXCEPT !.history = Append(b.history, <<made.m, Snapshot(b)>>),
                              !.fullmove_number = IF Opponent(b.turn) = BLACK THEN @ + 1 ELSE @,
                              !.turn = Opponent(b.turn)])

\* push_move, given what _make_move_internal left: the history entry holds the move
\* object, so it shows the captured piece the call filled in
PushMade(b, made) ==
  LogSignature([made.b EXCEPT !.history = Append(b.history, <<made.m, Snapshot(b)>>),
                              !.fullmove_number = IF b.turn = BLACK THEN @ + 1 ELSE @,
                              !.turn = Opponent(b.turn)])

push_move(b, m) == PushMade(b, make_move_internal(b, m))

\* a plausible slip: the signature is popped before the history is looked at
UndoPopsLogFirst(b) ==
  LET log == IF b.fen_history # <<>>
             THEN SubSeq(b.fen_history, 1, Len(b.fen_history) - 1) ELSE b.fen_history
  IN IF b.history = <<>> THEN [b EXCEPT !.fen_history = log]
     ELSE LET state == b.history[Len(b.history)][2]
          IN [b EXCEPT !.history = SubSeq(b.history, 1, Len(b.history) - 1),
                       !.board = state.board,
                       !.castling_rights = state.castling_rights,
                       !.en_passant_target = state.en_passant_target,
                       !.halfmove_clock = state.halfmove_clock,
                       !.fullmove_number = state.fullmove_number,
                       !.turn = state.turn,
                       !.fen_history = log]

\* a plausible slip: the snapshot shares the live grid (no deepcopy), so the grid that
\* undo puts back is the one the move has already changed
UndoSharedGrid(b) ==
  IF b.history = <<>> THEN b
  ELSE LET state == b.history[Len(b.history)][2]
       IN [b EXCEPT !.history = SubSeq(b.history, 1, Len(b.history) - 1),
                    !.castling_rights = state.castling_rights,
                    !.en_passant_target = state.en_passant_target,
                    !.halfmove_clock = state.halfmove_clock,
                    !.fullmove_number = state.fullmove_number,
                    !.turn = state.turn,
                    !.fen_history = IF b.fen_history # <<>>
                                    THEN SubSeq(b.fen_history, 1, Len(b.fen_history) - 1)
                                    ELSE b.fen_history]

\* a plausible slip: undo forgets the signature log
UndoKeepsLog(b) ==
  IF b.history = <<>> THEN b
  ELSE LET state == b.history[Len(b.history)][2]
       IN [b EXCEPT !.history = SubSeq(b.history, 1, Len(b.history) - 1),
                    !.board = state.board,
                    !.castling_rights = state.castling_rights,
                    !.en_passant_target = state.en_passant_target,
                    !.halfmove_clock = state.halfmove_clock,
                    !.fullmove_number = state.fullmove_number,
                    !.turn = state.turn]

\* a plausible slip: the snapshot's halfmove clock is not put back
UndoKeepsClock(b) ==
  IF b.history = <<>> THEN b
  ELSE LET state == b.history[Len(b.history)][2]
       IN [b EXCEPT !.history = SubSeq(b.history, 1, Len(b.history) - 1),
                    !.board = state.board,
                    !.castling_rights = state.castling_rights,
                    !.en_passant_target = state.en_passant_target,
                    !.fullmove_number = state.fullmove_number,
                    !.turn = state.turn,
                    !.fen_history = IF b.fen_history # <<>>
                                    THEN SubSeq(b.fen_history, 1, Len(b.fen_history) - 1)
                                    ELSE b.fen_history]

undo_move(b) ==
  IF b.history = <<>> THEN b
  ELSE LET state == b.history[Len(b.history)][2]
       IN [b EXCEPT !.history = SubSeq(b.history, 1, Len(b.history) - 1),
                    !.board = state.board,
                    !.castling_rights = state.castling_rights,
                    !.en_passant_target = state.en_passant_target,
                    !.halfmove_clock = state.halfmove_clock,
                    !.fullmove_number = state.fullmove_number,
                    !.turn = state.turn,
                    !.fen_history = IF b.fen_history # <<>>
                                    THEN SubSeq(b.fen_history, 1, Len(b.fen_history) - 1)
                                    ELSE b.fen_history]

\* ------------------------------------------------------ make_move_uci
\* make_move_uci, the loop `for m in candidates`: the first candidate the promotion
\* letter (or its absence) selects, as a list of at most one move
RECURSIVE FirstMatch(_, _)
FirstMatch(candidates, promotion) ==
  IF candidates = <<>> THEN <<>>
  ELSE IF (IF promotion # None
           THEN Head(candidates).promotion # None
                /\ Lower(promotion) = Lower(Head(candidates).promotion)
           ELSE Head(candidates).promotion = None)
  THEN <<Head(candidates)>>
  ELSE FirstMatch(Tail(candidates), promotion)

\* make_move_uci, the return of the loop
ApplyMatch(b, found) ==
  IF found = <<>> THEN [b |-> b, val |-> None]
  ELSE [b |-> push_move(b, found[1]), val |-> "Move"]

\* a plausible slip: the first candidate is applied before the promotion letter is
\* looked at, and the failure paths return without taking it back
ChooseCandidatePushFirst(b, candidates, promotion) ==
  LET is_promo(m) == m.promotion # None
  IN IF candidates = <<>> THEN [b |-> b, val |-> None]
     ELSE IF SelectSeq(candidates, is_promo) # <<>> /\ promotion = None
     THEN [b |-> push_move(b, candidates[1]), val |-> None]
     ELSE IF FirstMatch(candidates, promotion) = <<>>
     THEN [b |-> push_move(b, candidates[1]), val |-> None]
     ELSE ApplyMatch(b, FirstMatch(candidates, promotion))

\* a plausible slip: without a promotion letter the first candidate (the queen) is taken
ChooseCandidateAutoQueen(b, candidates, promotion) ==
  IF candidates = <<>> THEN [b |-> b, val |-> None]
  ELSE IF promotion = None THEN ApplyMatch(b, <<candidates[1]>>)
  ELSE ApplyMatch(b, FirstMatch(candidates, promotion))

\* make_move_uci, from `if not candidates` on
ChooseCandidate(b, candidates, promotion) ==
  LET is_promo(m) == m.promotion # None
  IN IF candidates = <<>> THEN [b |-> b, val |-> None]
     ELSE IF SelectSeq(candidates, is_promo) # <<>> /\ promotion = None
     THEN [b |-> b, val |-> None]
     ELSE ApplyMatch(b, FirstMatch(candidates, promotion))

\* make_move_uci, the list `candidates`
Candidates(moves, fr, to) ==
  LET is_candidate(m) == m.from_sq = fr /\ m.to_sq = to
  IN SelectSeq(moves, is_candidate)

\* make_move_uci, given the moves generate_moves(legal=True) returned: the board as
\* the call leaves it and the value it returns ("Move" for the Move it applied, which
\* is then the last entry of history, or None)
MakeMoveUciFrom(b, uci, moves) ==
  LET from_file == IndexOf(FILES, uci[1])
      from_rank == IndexOf(RANKS, uci[2])
      to_file == IndexOf(FILES, uci[3])
      to_rank == IndexOf(RANKS, uci[4])
  IN IF Len(uci) < 4 THEN [b |-> b, val |-> None]
     ELSE IF from_file < 0 \/ from_rank < 0 \/ to_file < 0 \/ to_rank < 0
     THEN [b |-> b, val |-> None]
     ELSE ChooseCandidate(b, Candidates(moves, <<from_rank, from_file>>, <<to_rank, to_file>>),
                          IF Len(uci) >= 5 THEN uci[5] ELSE None)

make_move_uci(b, uci) == MakeMoveUciFrom(b, uci, generate_moves(b, TRUE))

\* -------------------------------------------------------- game_status
Count(log, x) == Cardinality({i \in 1..Len(log) : log[i] = x})

FiftyMoveLimit == 100

RepetitionLimit == 3

\* a plausible slip: the side to move is named as the winner of a checkmate
ClassifyWinnerToMove(b, in_check, moves) ==
  IF moves = <<>>
  THEN (IF in_check THEN <<"checkmate", b.turn>> ELSE <<"stalemate", None>>)
  ELSE IF b.halfmove_clock >= FiftyMoveLimit THEN <<"draw", None>>
  ELSE IF Count(b.fen_history, fen_for_repetition(b)) >= RepetitionLimit
  THEN <<"draw", None>>
  ELSE <<"ongoing", None>>

\* a plausible slip: the draw rules are tried before the legal moves are looked at
ClassifyDrawFirst(b, in_check, moves) ==
  IF b.halfmove_clock >= FiftyMoveLimit THEN <<"draw", None>>
  ELSE IF Count(b.fen_history, fen_for_repetition(b)) >= RepetitionLimit
  THEN <<"draw", None>>
  ELSE IF moves = <<>>
  THEN (IF in_check THEN <<"checkmate", Opponent(b.turn)>> ELSE <<"stalemate", None>>)
  ELSE <<"ongoing", None>>

\* a plausible slip: the clock must exceed the limit
ClassifyStrictLimit(b, in_check, moves) ==
  IF moves = <<>>
  THEN (IF in_check THEN <<"checkmate", Opponent(b.turn)>> ELSE <<"stalemate", None>>)
  ELSE IF b.halfmove_clock > FiftyMoveLimit THEN <<"draw", None>>
  ELSE IF Count(b.fen_history, fen_for_repetition(b)) >= RepetitionLimit
  THEN <<"draw", None>>
  ELSE <<"ongoing", None>>

\* game_status, given in_check and the legal moves
Classify(b, in_check, moves) ==
  IF moves = <<>>
  THEN (IF in_check THEN <<"checkmate", Opponent(b.turn)>> ELSE <<"stalemate", None>>)
  ELSE IF b.halfmove_clock >= FiftyMoveLimit THEN <<"draw", None>>
  ELSE IF Count(b.fen_history, fen_for_repetition(b)) >= RepetitionLimit
  THEN <<"draw", None>>
  ELSE <<"ongoing", None>>

game_status(b) == Classify(b, king_in_check(b, b.turn), generate_moves(b, TRUE))

\* ------------------------------------------------------------- inputs
\* The positions handed to set_fen and the codes handed to make_move_uci.

\* White may castle king-side; a black pawn on e2 attacks d1 and f1
\*   4k3/8/8/8/8/8/4p3/4K2R w K - 0 1
CastleFen ==
  <<"4", "k", "3", "/", "8", "/", "8", "/", "8", "/", "8", "/", "8", "/", "4", "p", "3", "/",
  "4", "K", "2", "R", " ", "w", " ", "K", " ", "-", " ", "0", " ", "1">>

\* White may not castle: the black rook on f8 attacks f1
\*   4kr2/8/8/8/8/8/8/4K2R w K - 0 1
GuardedFen ==
  <<"4", "k", "r", "2", "/", "8", "/", "8", "/", "8", "/", "8", "/", "8", "/", "8", "/", "4",
  "K", "2", "R", " ", "w", " ", "K", " ", "-", " ", "0", " ", "1">>

\* d7d5 lets White capture en passant on d6
\*   4k3/3p4/8/4P3/8/8/8/4K3 b - - 0 1
EnPassantFen ==
  <<"4", "k", "3", "/", "3", "p", "4", "/", "8", "/", "4", "P", "3", "/", "8", "/", "8", "/",
  "8", "/", "4", "K", "3", " ", "b", " ", "-", " ", "-", " ", "0", " ", "1">>

\* the pawn on e7 promotes on e8 or by capturing on d8
\*   3r3k/4P3/8/8/8/8/8/4K3 w - - 0 1
PromotionFen ==
  <<"3", "r", "3", "k", "/", "4", "P", "3", "/", "8", "/", "8", "/", "8", "/", "8", "/", "8",
  "/", "4", "K", "3", " ", "w", " ", "-", " ", "-", " ", "0", " ", "1">>

\* one move from mate (g2g7), stalemate (g2g6) and the 50-move limit
\*   7k/5K2/8/8/8/8/6Q1/8 w - - 99 60
EndingFen ==
  <<"7", "k", "/", "5", "K", "2", "/", "8", "/", "8", "/", "8", "/", "8", "/", "6", "Q", "1",
  "/", "8", " ", "w", " ", "-", " ", "-", " ", "9", "9", " ", "6", "0">>

\* the knight on e2 is pinned by the rook on e8
\*   4r2k/8/8/8/8/8/4N3/4K3 w - - 0 1
PinFen ==
  <<"4", "r", "2", "k", "/", "8", "/", "8", "/", "8", "/", "8", "/", "8", "/", "4", "N", "3",
  "/", "4", "K", "3", " ", "w", " ", "-", " ", "-", " ", "0", " ", "1">>

\* kings and a rook that can shuttle back and forth
\*   4k3/8/8/8/8/8/8/4K2R w K - 0 1
ShuffleFen ==
  <<"4", "k", "3", "/", "8", "/", "8", "/", "8", "/", "8", "/", "8", "/", "8", "/", "4", "K",
  "2", "R", " ", "w", " ", "K", " ", "-", " ", "0", " ", "1">>

FenInputs == {CastleFen, GuardedFen, EnPassantFen, PromotionFen, EndingFen, PinFen, ShuffleFen}

UciInputs ==
  {<<"e", "1", "g", "1">>,
   <<"e", "1", "e", "2">>,
   <<"e", "1", "d", "1">>,
   <<"d", "1", "e", "1">>,
   <<"e", "8", "d", "8">>,
   <<"d", "8", "e", "8">>,
   <<"h", "1", "g", "1">>,
   <<"d", "7", "d", "5">>,
   <<"e", "5", "d", "6">>,
   <<"e", "5", "e", "6">>,
   <<"e", "7", "e", "8">>,
   <<"e", "7", "e", "8", "q">>,
   <<"e", "7", "e", "8", "n">>,
   <<"e", "7", "d", "8", "r">>,
   <<"e", "7", "e", "8", "k">>,
   <<"e", "7", "e", "8", "Q">>,
   <<"g", "2", "g", "7">>,
   <<"g", "2", "g", "6">>,
   <<"g", "2", "g", "3">>,
   <<"h", "8", "h", "7">>,
   <<"e", "2", "c", "3">>,
   <<"e", "2", "e", "1">>,
   <<"e", "2", "e", "1", "q">>,
   <<"e", "2", "f", "1", "n">>,
   <<"e", "2", "e", "4", "q">>,
   <<"e", "9", "e", "4">>,
   <<"e", "2">>,
   <<"i", "2", "e", "4">>}

\* the longest history the model lets a game grow to
MaxHistory == 8

\* ------------------------------------------------------ state machine
\* the Board object the application holds
Self ==
  [board |-> board, turn |-> turn, castling_rights |-> castling_rights,
   en_passant_target |-> en_passant_target, halfmove_clock |-> halfmove_clock,
   fullmove_number |-> fullmove_number, history |-> history, fen_history |-> fen_history]

\* the object's fields after a call
Becomes(b) ==
  /\ board' = b.board
  /\ turn' = b.turn
  /\ castling_rights' = b.castling_rights
  /\ en_passant_target' = b.en_passant_target
  /\ halfmove_clock' = b.halfmove_clock
  /\ fullmove_number' = b.fullmove_number
  /\ history' = b.history
  /\ fen_history' = b.fen_history

Fields == <<board, turn, castling_rights, en_passant_target, halfmove_clock,
            fullmove_number, history, fen_history>>

\* the fields of the ChessApp window that its move, undo, new-game and replay handlers
\* read: the moves of the whole game, the selected square, the two flags, and the
\* callbacks that after() has scheduled and the event loop has not run yet
Gui == <<full_history_data, selected, animating, game_over, timers>>

\* ChessApp.__init__
GuiInit ==
  /\ full_history_data = <<>>
  /\ selected = NoSquare
  /\ animating = FALSE
  /\ game_over = FALSE
  /\ timers = EmptyBag

\* Board(): the start position
Init ==
  /\ \E r \in {set_startpos(NewBoard)} :
       /\ board = r.b.board
       /\ turn = r.b.turn
       /\ castling_rights = r.b.castling_rights
       /\ en_passant_target = r.b.en_passant_target
       /\ halfmove_clock = r.b.halfmove_clock
       /\ fullmove_number = r.b.fullmove_number
       /\ history = r.b.history
       /\ fen_history = r.b.fen_history
  /\ ret = [op |-> "Board", val |-> None]
  /\ GuiInit

SetFen(fen) ==
  \E r \in {set_fen(Self, fen)} :
    /\ Becomes(r.b)
    /\ ret' = [op |-> "set_fen", val |-> IF r.exc THEN "raised" ELSE None]
    /\ UNCHANGED Gui

SetStartpos ==
  \E r \in {set_startpos(Self)} :
    /\ Becomes(r.b)
    /\ ret' = [op |-> "set_startpos", val |-> IF r.exc THEN "raised" ELSE None]
    /\ UNCHANGED Gui

\* push_move, called as the application calls it: with one of the legal moves
PushMove(legal) ==
  /\ Len(history) < MaxHistory
  /\ \E i \in 1..Len(legal) :
       /\ Uci(legal[i]) \in UciInputs
       /\ \E b \in {push_move(Self, legal[i])} : Becomes(b)
  /\ ret' = [op |-> "push_move", val |-> None]
  /\ UNCHANGED Gui

UndoMove ==
  /\ \E b \in {undo_move(Self)} : Becomes(b)
  /\ ret' = [op |-> "undo_move", val |-> None]
  /\ UNCHANGED Gui

\* make_move_uci(uci); legal is what its call of generate_moves(legal=True) returns
CallMakeMoveUci(uci, legal) ==
  /\ \E r \in {MakeMoveUciFrom(Self, uci, legal)} :
       /\ Becomes(r.b)
       /\ ret' = [op |-> "make_move_uci", val |-> r.val]
       /\ UNCHANGED Gui

MakeMoveUci(uci, legal) ==
  /\ Len(history) < MaxHistory
  /\ CallMakeMoveUci(uci, legal)

GameStatus ==
  /\ \E st \in {game_status(Self)} :
       ret' = [op |-> "game_status", val |-> st[1], winner |-> st[2]]
  /\ UNCHANGED Fields
  /\ UNCHANGED Gui

\* a game is played to at most MaxHistory applied moves
Next ==
  \/ \E fen \in FenInputs : SetFen(fen)
  \/ SetStartpos
  \/ UndoMove
  \/ GameStatus
  \/ \E legal \in {generate_moves(Self, TRUE)} : PushMove(legal)
  \/ \E legal \in {generate_moves(Self, TRUE)} : \E uci \in UciInputs : MakeMoveUci(uci, legal)

Spec == Init /\ [][Next]_vars

\* ------------------------------------------------- a scripted quiet game
\* Two bare kings: White's walks rank by rank over the first six ranks and then back the
\* way it came, Black's steps between a8 and b8.  No pawn moves, nothing is captured,
\* and no position comes up a third time.
\*   k7/8/8/8/8/8/8/K7 w - - 0 1
KingsFen ==
  <<"k", "7", "/", "8", "/", "8", "/", "8", "/", "8", "/", "8", "/", "8", "/", "K", "7", " ", "w", " ", "-", " ", "-", " ", "0", " ", "1">>

\* the number of halfmoves of the script that are replayed
ScriptLength == 102

\* the k-th square of the white king's walk, k = 0 being a1
TourSquare(k) ==
  LET t == IF k <= 47 THEN k ELSE 94 - k
      r == t \div 8
  IN <<r, IF r % 2 = 0 THEN t % 8 ELSE 7 - (t % 8)>>

SquareName(sq) == <<FILES[sq[2] + 1], RANKS[sq[1] + 1]>>

\* the code of the n-th halfmove of the script
ScriptCode(n) ==
  IF n % 2 = 1
  THEN SquareName(TourSquare((n - 1) \div 2)) \o SquareName(TourSquare((n + 1) \div 2))
  ELSE IF (n \div 2) % 2 = 1 THEN <<"a", "8", "b", "8">> ELSE <<"b", "8", "a", "8">>

\* Board(KingsFen)
InitFifty ==
  /\ \E r \in {set_fen(NewBoard, KingsFen)} :
       /\ board = r.b.board
       /\ turn = r.b.turn
       /\ castling_rights = r.b.castling_rights
       /\ en_passant_target = r.b.en_passant_target
       /\ halfmove_clock = r.b.halfmove_clock
       /\ fullmove_number = r.b.fullmove_number
       /\ history = r.b.history
       /\ fen_history = r.b.fen_history
  /\ ret = [op |-> "Board", val |-> None]
  /\ GuiInit

\* make_move_uci of the next halfmove of the script
ReplayScript(legal) ==
  /\ Len(history) < ScriptLength
  /\ CallMakeMoveUci(ScriptCode(Len(history) + 1), legal)

NextFifty ==
  \/ SetFen(KingsFen)
  \/ UndoMove
  \/ GameStatus
  \/ \E legal \in {generate_moves(Self, TRUE)} : ReplayScript(legal)

SpecFifty == InitFifty /\ [][NextFifty]_vars

\* ------------------------------------------- queries, and set_fen on any text
\* The three queries as a caller sees them: the object after the call and the value
\* returned.  None of them assigns to a field of self.

\* king_in_check(color)
CallKingInCheck(b, color) == [b |-> b, val |-> king_in_check(b, color)]

\* a plausible slip: the legal filter tries the moves on self (b2 = self) instead of on
\* copy.deepcopy(self), so self is left with the first pseudo-legal move applied
GenerateMovesOnSelf(b) ==
  [b |-> IF PseudoLegalMoves(b) = <<>> THEN b
         ELSE make_move_internal(b, PseudoLegalMoves(b)[1]).b,
   val |-> generate_moves(b, TRUE)]

\* generate_moves(legal=True): each move is tried on b2 = copy.deepcopy(self)
CallGenerateMoves(b) == [b |-> b, val |-> generate_moves(b, TRUE)]

\* game_status: its calls of king_in_check and generate_moves, then the classification
CallGameStatus(b) ==
  [b |-> CallGenerateMoves(CallKingInCheck(b, b.turn).b).b, val |-> game_status(b)]

KingInCheck(color) ==
  \E r \in {CallKingInCheck(Self, color)} :
    /\ Becomes(r.b)
    /\ ret' = [op |-> "king_in_check", val |-> IF r.val THEN "True" ELSE "False",
               color |-> color]
    /\ UNCHANGED Gui

GenerateMoves ==
  \E r \in {CallGenerateMoves(Self)} :
    /\ Becomes(r.b)
    /\ ret' = [op |-> "generate_moves", val |-> "list", moves |-> r.val]
    /\ UNCHANGED Gui

QueryStatus ==
  \E r \in {CallGameStatus(Self)} :
    /\ Becomes(r.b)
    /\ ret' = [op |-> "game_status", val |-> r.val[1], winner |-> r.val[2]]
    /\ UNCHANGED Gui

\* the placement alone: parts[1] raises IndexError
\*   4k3/8/8/8/8/8/8/4K3
MissingFieldsFen ==
  <<"4", "k", "3", "/", "8", "/", "8", "/", "8", "/", "8", "/", "8", "/", "8", "/", "4",
    "K", "3">>

\* seven ranks instead of eight
\*   4k3/8/8/8/8/8/8 w - - 0 1
SevenRanksFen ==
  <<"4", "k", "3", "/", "8", "/", "8", "/", "8", "/", "8", "/", "8", "/", "8", " ", "w",
    " ", "-", " ", "-", " ", "0", " ", "1">>

\* X is no piece letter
\*   4k3/8/8/8/8/8/8/4X3 w - - 0 1
UnknownLetterFen ==
  <<"4", "k", "3", "/", "8", "/", "8", "/", "8", "/", "8", "/", "8", "/", "8", "/", "4",
    "X", "3", " ", "w", " ", "-", " ", "-", " ", "0", " ", "1">>

\* the first rank names nine squares
\*   4k3/8/8/8/8/8/8/ppppKpppp w - - 0 1
LongRankFen ==
  <<"4", "k", "3", "/", "8", "/", "8", "/", "8", "/", "8", "/", "8", "/", "8", "/", "p",
    "p", "p", "p", "K", "p", "p", "p", "p", " ", "w", " ", "-", " ", "-", " ", "0", " ",
    "1">>

\* the seventh rank is empty
\*   4k3//8/8/8/8/8/4K3 w - - 0 1
EmptyRankFen ==
  <<"4", "k", "3", "/", "/", "8", "/", "8", "/", "8", "/", "8", "/", "8", "/", "4", "K",
    "3", " ", "w", " ", "-", " ", "-", " ", "0", " ", "1">>

\* the fullmove number is no number
\*   4k3/8/8/8/8/8/8/4K3 b - - 5 x
BadClockFen ==
  <<"4", "k", "3", "/", "8", "/", "8", "/", "8", "/", "8", "/", "8", "/", "8", "/", "4",
    "K", "3", " ", "b", " ", "-", " ", "-", " ", "5", " ", "x">>

\* well formed, White to move without a king
\*   4k3/8/8/8/8/8/8/4Q3 w - - 0 1
NoWhiteKingFen ==
  <<"4", "k", "3", "/", "8", "/", "8", "/", "8", "/", "8", "/", "8", "/", "8", "/", "4",
    "Q", "3", " ", "w", " ", "-", " ", "-", " ", "0", " ", "1">>

\* well formed, White to move, Black without a king
\*   3q4/8/8/8/8/8/8/4K3 w - - 0 1
NoBlackKingFen ==
  <<"3", "q", "4", "/", "8", "/", "8", "/", "8", "/", "8", "/", "8", "/", "8", "/", "4",
    "K", "3", " ", "w", " ", "-", " ", "-", " ", "0", " ", "1">>

\* well formed, both kings, Black to move
\*   4k3/8/8/8/8/8/8/4K3 b - - 0 1
BareKingsFen ==
  <<"4", "k", "3", "/", "8", "/", "8", "/", "8", "/", "8", "/", "8", "/", "8", "/", "4",
    "K", "3", " ", "b", " ", "-", " ", "-", " ", "0", " ", "1">>

\* the texts that are no well-formed FEN
MalformedFens ==
  {MissingFieldsFen, SevenRanksFen, UnknownLetterFen, LongRankFen, EmptyRankFen, BadClockFen}

SetupFens == MalformedFens \cup {NoWhiteKingFen, NoBlackKingFen, BareKingsFen}

\* at most this many moves are applied after a position was set up
MaxSetupHistory == 2

SetupMove(uci, legal) ==
  /\ Len(history) < MaxSetupHistory
  /\ CallMakeMoveUci(uci, legal)

NextSetup ==
  \/ \E fen \in SetupFens : SetFen(fen)
  \/ SetStartpos
  \/ UndoMove
  \/ \E color \in {WHITE, BLACK} : KingInCheck(color)
  \/ GenerateMoves
  \/ QueryStatus
  \/ \E legal \in {generate_moves(Self, TRUE)} : \E uci \in UciInputs : SetupMove(uci, legal)

SpecSetup == Init /\ [][NextSetup]_vars

\* ------------------------------------------- positions written out and read back
\* the position is written out and read back: set_fen(_fen_for_repetition())
Reparse ==
  \E r \in {set_fen(Self, fen_for_repetition(Self))} :
    /\ Becomes(r.b)
    /\ ret' = [op |-> "reparse", val |-> IF r.exc THEN "raised" ELSE None,
               fen |-> fen_for_repetition(Self)]
    /\ UNCHANGED Gui

\* at most this many moves are applied before a position is written out
MaxCodecHistory == 3

CodecMove(uci, legal) ==
  /\ Len(history) < MaxCodecHistory
  /\ CallMakeMoveUci(uci, legal)

NextCodec ==
  \/ \E fen \in FenInputs : SetFen(fen)
  \/ SetStartpos
  \/ UndoMove
  \/ Reparse
  \/ \E legal \in {generate_moves(Self, TRUE)} : \E uci \in UciInputs : CodecMove(uci, legal)

SpecCodec == Init /\ [][NextCodec]_vars

\* ------------------------------------------------- openings from the start position
\* the four moves of the fool's mate
FoolsMate == <<<<"f", "2", "f", "3">>, <<"e", "7", "e", "5">>, <<"g", "2", "g", "4">>, <<"d", "8", "h", "4">>>>

\* the codes handed to make_move_uci: those four, and two more pawn moves
OpeningCodes ==
  {FoolsMate[i] : i \in 1..Len(FoolsMate)}
  \cup {<<"e", "2", "e", "4">>, <<"d", "7", "d", "5">>}

\* at most this many moves of an opening are played
MaxOpeningHistory == 4

OpeningMove(uci, legal) ==
  /\ Len(history) < MaxOpeningHistory
  /\ CallMakeMoveUci(uci, legal)

NextOpening ==
  \/ SetStartpos
  \/ UndoMove
  \/ GameStatus
  \/ \E legal \in {generate_moves(Self, TRUE)} : \E uci \in OpeningCodes : OpeningMove(uci, legal)

SpecOpening == Init /\ [][NextOpening]_vars

\* ------------------------------------------ every game from the start position
\* a game is followed for this many moves
PerftDepth == 1

\* push_move of any of the legal moves
PerftMove(legal) ==
  /\ Len(history) < PerftDepth
  /\ \E i \in 1..Len(legal) : \E b \in {push_move(Self, legal[i])} : Becomes(b)
  /\ ret' = [op |-> "push_move", val |-> None]
  /\ UNCHANGED Gui

NextPerft ==
  \/ SetStartpos
  \/ UndoMove
  \/ \E color \in {WHITE, BLACK} : KingInCheck(color)
  \/ GenerateMoves
  \/ QueryStatus
  \/ \E legal \in {generate_moves(Self, TRUE)} : PerftMove(legal)

SpecPerft == Init /\ [][NextPerft]_vars

\* ------------------------------------------------ castling, promotion, en passant
\* kings and rooks on their home squares with every right, a knight on b1
\*   r3k2r/8/8/8/8/8/8/RN2K2R w KQkq - 0 1
CornersFen ==
  <<"r", "3", "k", "2", "r", "/", "8", "/", "8", "/", "8", "/", "8", "/", "8", "/", "8",
    "/", "R", "N", "2", "K", "2", "R", " ", "w", " ", "K", "Q", "k", "q", " ", "-", " ",
    "0", " ", "1">>

\* a pawn of each colour one step from promoting, by a push or by capturing a rook; b2b4
\* lets Black capture en passant on b3
\*   3r3k/4P3/8/8/2p5/8/1P2p3/3R3K w - - 0 1
PawnsFen ==
  <<"3", "r", "3", "k", "/", "4", "P", "3", "/", "8", "/", "8", "/", "2", "p", "5", "/",
    "8", "/", "1", "P", "2", "p", "3", "/", "3", "R", "3", "K", " ", "w", " ", "-", " ",
    "-", " ", "0", " ", "1">>

RulesFens == {CornersFen, PawnsFen}

\* the codes handed to make_move_uci
RulesCodes ==
  {<<"a", "1", "a", "8">>, <<"h", "1", "h", "8">>, <<"a", "8", "a", "1">>,
   <<"h", "8", "h", "1">>, <<"h", "8", "h", "7">>, <<"h", "7", "h", "8">>,
   <<"e", "1", "g", "1">>, <<"e", "1", "c", "1">>, <<"e", "8", "g", "8">>,
   <<"e", "8", "c", "8">>, <<"e", "1", "e", "2">>, <<"e", "8", "e", "7">>,
   <<"b", "1", "c", "3">>, <<"e", "7", "e", "8", "q">>, <<"e", "7", "d", "8", "n">>,
   <<"e", "7", "e", "8">>, <<"e", "2", "e", "1", "r">>, <<"e", "2", "d", "1", "b">>,
   <<"b", "2", "b", "4">>, <<"c", "4", "b", "3">>, <<"d", "1", "d", "8">>,
   <<"h", "1", "h", "2">>}

\* at most this many moves are applied after a position was set up
MaxRulesHistory == 3

RulesMove(uci, legal) ==
  /\ Len(history) < MaxRulesHistory
  /\ CallMakeMoveUci(uci, legal)

NextRules ==
  \/ \E fen \in RulesFens : SetFen(fen)
  \/ UndoMove
  \/ \E legal \in {generate_moves(Self, TRUE)} : \E uci \in RulesCodes : RulesMove(uci, legal)

SpecRules == Init /\ [][NextRules]_vars

\* ----------------------------------------------------- moves taken back
\* the codes handed to make_move_uci: the rook and the king of ShuffleFen going back and
\* forth, the queen of EndingFen, steps of the kings
TakeBackCodes ==
  {<<"h", "1", "g", "1">>, <<"g", "1", "h", "1">>, <<"e", "8", "d", "8">>, <<"d", "8", "e", "8">>,
   <<"g", "2", "g", "3">>, <<"g", "2", "g", "7">>, <<"g", "2", "g", "6">>, <<"h", "8", "h", "7">>,
   <<"e", "1", "e", "2">>, <<"e", "2", "e", "1">>, <<"e", "8", "e", "7">>, <<"e", "7", "e", "8">>}

\* at most this many moves are applied after a position was set up
MaxTakeBackHistory == 6

TakeBackMove(uci, legal) ==
  /\ Len(history) < MaxTakeBackHistory
  /\ CallMakeMoveUci(uci, legal)

NextTakeBack ==
  \/ \E fen \in {ShuffleFen, EndingFen} : SetFen(fen)
  \/ UndoMove
  \/ GameStatus
  \/ \E legal \in {generate_moves(Self, TRUE)} : \E uci \in TakeBackCodes : TakeBackMove(uci, legal)

SpecTakeBack == Init /\ [][NextTakeBack]_vars

\* ------------------------------------------------------------ the window
\* ChessApp holds the Board of the sections above and records the game apart from it, in
\* full_history_data.  Its handlers run one at a time in the event loop, each to its end;
\* a handler that calls after() leaves a callback behind that the loop runs later, with
\* other handlers in between.  The clocks and the `started` flag that runs them, the
\* tallies of captured pieces, the saved games and the drawing are left out: nothing the
\* handlers below do depends on them.

\* the squares the model clicks on: e2, e4, e7, e5
ClickSquares == {<<1, 4>>, <<3, 4>>, <<6, 4>>, <<4, 4>>}

\* ask_promotion: the letter picked in the dialog, or None when the dialog is closed
PromotionAnswers == {"q", "r", "b", "n", None}

\* the longest game the model plays by clicks
MaxGameLength == 2

\* _animate_history_replay: the time one move takes to slide, in milliseconds
duration_ms == 150

\* _animate_history_replay: steps = max(5, int(duration_ms / 20))
steps == IF duration_ms \div 20 > 5 THEN duration_ms \div 20 ELSE 5

\* Board()
Board == set_startpos(NewBoard).b

\* the window: its board and the fields of Gui
App ==
  [board |-> Self, full_history_data |-> full_history_data, selected |-> selected,
   animating |-> animating, game_over |-> game_over, timers |-> timers]

\* the window after a handler has run
AppBecomes(a) ==
  /\ Becomes(a.board)
  /\ full_history_data' = a.full_history_data
  /\ selected' = a.selected
  /\ animating' = a.animating
  /\ game_over' = a.game_over
  /\ timers' = a.timers

\* self.after(ms, f): f joins the callbacks the event loop has yet to run
self_after(a, f) == [a EXCEPT !.timers = @ (+) SetToBag({f})]

\* draw_board, its status block: a position that is mate, stalemate or a draw ends the
\* game; st is what game_status() returns
Drawn(a, st) == IF st[1] # "ongoing" THEN [a EXCEPT !.game_over = TRUE] ELSE a

\* draw_board
draw_board(a) == Drawn(a, game_status(a.board))

\* push_move of a move whose origin square is empty: the move is appended to the history
\* and _make_move_internal raises on `assert piece is not None`
PushRaises(b, m) == [b EXCEPT !.history = Append(@, <<m, Snapshot(b)>>)]

\* restore_position, its loop: the moves pushed one after the other on a new Board;
\* exc tells that a push raised
RECURSIVE PushAll(_, _)
PushAll(b, moves) ==
  IF moves = <<>> THEN [b |-> b, exc |-> FALSE]
  ELSE IF b.board[Head(moves).from_sq[1]][Head(moves).from_sq[2]] = None
  THEN [b |-> PushRaises(b, Head(moves)), exc |-> TRUE]
  ELSE PushAll(push_move(b, Head(moves)), Tail(moves))

\* step(i, curx, cury), the closure of _animate_history_replay; frame holds the arguments
\* of the enclosing call
step(a, i, frame) ==
  IF i >= steps
  THEN self_after(a, [frame EXCEPT !.fn = "_animate_history_replay", !.i = 0,
                              !.current_index = @ + 1])
  ELSE self_after(a, [frame EXCEPT !.fn = "step", !.i = i + 1])

\* _animate_history_replay; a push that raises ends the callback, with animating still set
\* and nothing scheduled
animate_history_replay(a, moves_to_play, current_index, total_moves, temp_board_final) ==
  LET frame == [fn |-> "_animate_history_replay", i |-> 0,
                moves_to_play |-> moves_to_play, current_index |-> current_index,
                total_moves |-> total_moves, temp_board_final |-> temp_board_final]
      move == moves_to_play[current_index + 1]
      piece_to_move == a.board.board[move.from_sq[1]][move.from_sq[2]]
      moving == [a EXCEPT !.animating = TRUE]
  IN IF current_index >= total_moves
     THEN draw_board([a EXCEPT !.board = temp_board_final, !.selected = NoSquare,
                               !.animating = FALSE])
     ELSE IF piece_to_move = None
     THEN [moving EXCEPT !.board = PushRaises(a.board, move)]
     ELSE step(draw_board([moving EXCEPT !.board = push_move(a.board, move)]), 0, frame)

\* restore_position past its loop: final is what the loop built
Restored(a, moves_to_play, final, animate) ==
  IF final.exc THEN [a |-> a, exc |-> TRUE]
  ELSE IF ~animate
  THEN [a |-> draw_board([a EXCEPT !.board = final.b, !.selected = NoSquare]),
        exc |-> FALSE]
  ELSE [a |-> animate_history_replay(
                draw_board([a EXCEPT !.selected = NoSquare, !.animating = TRUE,
                                     !.board = Board]),
                moves_to_play, 0, Len(moves_to_play), final.b),
        exc |-> FALSE]

\* restore_position, moves_to_play = full_moves[:target_move_index + 1]
MovesToPlay(full_moves, target_move_index) ==
  SubSeq(full_moves, 1, (IF target_move_index >= Len(full_moves)
                         THEN Len(full_moves) - 1 ELSE target_move_index) + 1)

RestoredBy(a, moves_to_play, animate) ==
  Restored(a, moves_to_play, PushAll(Board, moves_to_play), animate)

\* restore_position(target_move_index, animate); exc tells that it raised
restore_position(a, target_move_index, animate) ==
  IF a.animating \/ a.full_history_data = <<>> THEN [a |-> a, exc |-> FALSE]
  ELSE RestoredBy(a, MovesToPlay(a.full_history_data, target_move_index), animate)

\* HistoryWidget.on_history_select, for a click on the cell of move target_index
on_history_select(a, target_index) ==
  IF a.full_history_data = <<>> THEN a
  ELSE restore_position(a, IF target_index >= Len(a.full_history_data)
                           THEN Len(a.full_history_data) - 1 ELSE target_index, TRUE).a

\* on_click_move, chosen_move: the move the second click chooses among the legal ones, as
\* a list of one move, or the empty list for None
ChosenMove(legal, from, to, prom) ==
  LET Candidate(m) == m.from_sq = from /\ m.to_sq = to
      candidates == SelectSeq(legal, Candidate)
      Promo(m) == m.promotion # None
      promos == SelectSeq(candidates, Promo)
      Asked(m) == prom # None /\ Lower(prom) = Lower(m.promotion)
      asked == SelectSeq(promos, Asked)
  IN IF promos # <<>> THEN (IF asked # <<>> THEN <<asked[1]>> ELSE <<>>)
     ELSE IF candidates # <<>> THEN <<candidates[1]>> ELSE <<>>

\* on_click_move, its first lines: nothing happens during a replay, and a board that is
\* behind the recorded game is brought to its end first; exc tells that the handler is over
ClickRestores(a) ==
  IF a.animating THEN [a |-> a, exc |-> TRUE]
  ELSE IF Len(a.board.history) # Len(a.full_history_data) /\ Len(a.full_history_data) > 0
  THEN restore_position(a, Len(a.full_history_data) - 1, FALSE)
  ELSE [a |-> a, exc |-> FALSE]

\* on_click_move on square (br, bc) past its first lines; legal is what generate_moves
\* (legal=True) returns on the board, prom is what ask_promotion returns
Clicked(a, legal, br, bc, prom) ==
  LET st == Classify(a.board, king_in_check(a.board, a.board.turn), legal)
      piece == a.board.board[br][bc]
      chosen_move == ChosenMove(legal, a.selected, <<br, bc>>, prom)
  IN IF a.game_over THEN a
     ELSE IF piece # None /\ piece_color(piece) = a.board.turn
     THEN Drawn([a EXCEPT !.selected = <<br, bc>>], st)
     ELSE IF a.selected = NoSquare THEN a
     ELSE IF chosen_move # <<>>
     THEN draw_board([a EXCEPT !.full_history_data = Append(@, chosen_move[1]),
                                !.board = push_move(@, chosen_move[1]),
                                !.selected = NoSquare])
     ELSE Drawn([a EXCEPT !.selected = NoSquare], st)

\* on_click_move
on_click_move(a, restored, legal, br, bc, prom) ==
  IF restored.exc THEN a ELSE Clicked(restored.a, legal, br, bc, prom)

\* on_undo
on_undo(a) ==
  IF a.board.history = <<>> THEN a
  ELSE draw_board([a EXCEPT !.full_history_data =
                               IF @ # <<>> THEN SubSeq(@, 1, Len(@) - 1) ELSE @,
                            !.board = undo_move(@),
                            !.selected = NoSquare,
                            !.game_over = FALSE])

\* on_new; the callbacks that wait in the event loop stay there
on_new(a) ==
  draw_board([a EXCEPT !.board = Board, !.selected = NoSquare, !.animating = FALSE,
                       !.game_over = FALSE, !.full_history_data = <<>>])

\* a click on the board; restored is the window past the first lines of the handler and
\* legal the moves it generates there
OnClickMove(restored, legal, sq, prom) ==
  /\ \E a \in {on_click_move(App, restored, legal, sq[1], sq[2], prom)} :
       /\ Len(a.full_history_data) <= MaxGameLength
       /\ AppBecomes(a)
  /\ ret' = [op |-> "on_click_move", val |-> None]

\* the Undo button
OnUndo ==
  /\ \E a \in {on_undo(App)} : AppBecomes(a)
  /\ ret' = [op |-> "on_undo", val |-> None]

\* the New game button
OnNew ==
  /\ \E a \in {on_new(App)} : AppBecomes(a)
  /\ ret' = [op |-> "on_new", val |-> None]

\* a click on a cell of the move list; the model clicks there when no callback waits
OnHistorySelect(target_index) ==
  /\ timers = EmptyBag
  /\ \E a \in {on_history_select(App, target_index)} : AppBecomes(a)
  /\ ret' = [op |-> "on_history_select", val |-> None]

\* the event loop runs a waiting step(i, ...) of the slide
RunStep(f) ==
  /\ f.fn = "step"
  /\ \E a \in {step([App EXCEPT !.timers = @ (-) SetToBag({f})], f.i, f)} : AppBecomes(a)
  /\ ret' = [op |-> "step", val |-> None]

\* the event loop runs a waiting _animate_history_replay(...)
RunReplay(f) ==
  /\ f.fn = "_animate_history_replay"
  /\ \E a \in {animate_history_replay([App EXCEPT !.timers = @ (-) SetToBag({f})],
                                      f.moves_to_play, f.current_index, f.total_moves,
                                      f.temp_board_final)} : AppBecomes(a)
  /\ ret' = [op |-> "_animate_history_replay", val |-> None]

NextApp ==
  \/ \E restored \in {ClickRestores(App)} :
       \E legal \in {generate_moves(restored.a.board, TRUE)} :
         \E sq \in ClickSquares : \E prom \in PromotionAnswers :
           OnClickMove(restored, legal, sq, prom)
  \/ OnUndo
  \/ OnNew
  \/ \E target_index \in 0..(MaxGameLength - 1) : OnHistorySelect(target_index)
  \/ \E f \in BagToSet(timers) : RunStep(f)
  \/ \E f \in BagToSet(timers) : RunReplay(f)

SpecApp == Init /\ [][NextApp]_vars

\* =====================================================================
\* The claims
\* =====================================================================

\* ----------------------------------------- the rules of chess, as the claims use them
SeqRange(s) == {s[i] : i \in 1..Len(s)}

Sign(x) == IF x > 0 THEN 1 ELSE IF x < 0 THEN -1 ELSE 0

Longest(x, y) == IF Abs(x) >= Abs(y) THEN Abs(x) ELSE Abs(y)

\* every square strictly between <<r, c>> and sq, which lie on one line, is empty
ClearLine(grid, r, c, sq) ==
  \A k \in 1..(Longest(sq[1] - r, sq[2] - c) - 1) :
    grid[r + k * Sign(sq[1] - r)][c + k * Sign(sq[2] - c)] = None

\* the piece on <<r, c>> attacks sq by the rules of chess: a pawn attacks the two squares
\* diagonally in front of it, whatever stands on them
PieceAttacks(grid, r, c, sq) ==
  LET p == grid[r][c]
      dr == sq[1] - r
      dc == sq[2] - c
      diagonal == Abs(dr) = Abs(dc) /\ dr # 0
      straight == (dr = 0) # (dc = 0)
  IN CASE p = "P" -> dr = 1 /\ Abs(dc) = 1
       [] p = "p" -> dr = -1 /\ Abs(dc) = 1
       [] p \in {"N", "n"} -> {Abs(dr), Abs(dc)} = {1, 2}
       [] p \in {"K", "k"} -> Longest(dr, dc) = 1
       [] p \in {"B", "b"} -> diagonal /\ ClearLine(grid, r, c, sq)
       [] p \in {"R", "r"} -> straight /\ ClearLine(grid, r, c, sq)
       [] p \in {"Q", "q"} -> (diagonal \/ straight) /\ ClearLine(grid, r, c, sq)
       [] OTHER -> FALSE

WhitePieces == {"P", "N", "B", "R", "Q", "K"}

BlackPieces == {"p", "n", "b", "r", "q", "k"}

PiecesOf(color) == IF color = WHITE THEN WhitePieces ELSE BlackPieces

ChessAttacked(grid, sq, by_color) ==
  \E r \in 0..7, c \in 0..7 : grid[r][c] \in PiecesOf(by_color) /\ PieceAttacks(grid, r, c, sq)

ChessInCheck(grid, color) ==
  \E r \in 0..7, c \in 0..7 :
    /\ grid[r][c] = (IF color = WHITE THEN "K" ELSE "k")
    /\ ChessAttacked(grid, <<r, c>>, Opponent(color))

BothKings == find_king(Self, WHITE) # NoSquare /\ find_king(Self, BLACK) # NoSquare

Applied == ret.op = "push_move" \/ (ret.op = "make_move_uci" /\ ret.val = "Move")

LastMove == history[Len(history)][1]

\* the positions the game went through before the present one
Earlier == {history[i][2] : i \in 1..Len(history)}

SamePosition(state) ==
  /\ state.board = board
  /\ state.turn = turn
  /\ state.castling_rights = castling_rights
  /\ state.en_passant_target = en_passant_target

\* how many times the game has been in the present position, this time included
Occurrences == Cardinality({i \in 1..Len(history) : SamePosition(history[i][2])}) + 1

\* ---------------------------------------------------------------- C1
\* C1: for every move m that generate_moves(legal=True) returns in a reachable position,
\* push_move(m) followed by undo_move() restores the grid, the four castling rights, the
\* en-passant target, the halfmove clock, the fullmove number and the side to move (and
\* with them the history and the signature log).
C1_PushUndoRestores ==
  \A m \in SeqRange(generate_moves(Self, TRUE)) : undo_move(push_move(Self, m)) = Self

\* a position, reached by undoing a move, in which a legal move changes the grid, a
\* castling right, the clock and the side to move at once
C1_Witness ==
  /\ ret.op = "undo_move"
  /\ \E m \in SeqRange(generate_moves(Self, TRUE)) :
       /\ m.is_castle
       /\ push_move(Self, m).castling_rights # castling_rights
       /\ push_move(Self, m).halfmove_clock # halfmove_clock

\* ---------------------------------------------------------------- C2
KeepsKingSafe(m) == ~ChessInCheck(make_move_internal(Self, m).b.board, turn)

\* C2: with both kings on the board, generate_moves(legal=True) returns exactly the
\* pseudo-legal moves of the side to move after which the mover's king is not attacked
\* (by the rules of chess), in the same order; and after a move was applied the side
\* that just moved is not in check.
C2_LegalMovesKeepKingSafe ==
  BothKings =>
    /\ generate_moves(Self, TRUE) = SelectSeq(generate_moves(Self, FALSE), KeepsKingSafe)
    /\ Applied => ~ChessInCheck(board, Opponent(turn))

\* a move was just applied, and the side to move has a pseudo-legal move that is not legal
C2_Witness ==
  /\ BothKings
  /\ Applied
  /\ \E m \in SeqRange(generate_moves(Self, FALSE)) : ~KeepsKingSafe(m)

\* ---------------------------------------------------------------- C3
\* the files of the king's square, the square it passes and the square it lands on
CastlingPath(m) == {4, (4 + m.to_sq[2]) \div 2, m.to_sq[2]}

\* C3: no castling move is generated while the king's square, the square it passes or
\* its destination is attacked by an opposing piece, a pawn attacking one of them
\* diagonally included.
C3_NoCastlingThroughAttack ==
  \A m \in SeqRange(generate_moves(Self, TRUE)) :
    m.is_castle =>
      \A f \in CastlingPath(m) : ~ChessAttacked(board, <<m.from_sq[1], f>>, Opponent(turn))

\* ---------------------------------------------------------------- C4
\* a pawn of the colour stands diagonally behind sq, so that sq is diagonally forward of it
PawnGuards(grid, sq, color) ==
  \E dc \in {-1, 1} :
    LET pr == sq[1] - (IF color = WHITE THEN 1 ELSE -1)
        pc == sq[2] + dc
    IN in_bounds(pr, pc) /\ grid[pr][pc] = (IF color = WHITE THEN "P" ELSE "p")

\* C4: is_square_attacked(sq, c) is True for every empty square sq diagonally forward of
\* a pawn of colour c.
C4_PawnAttacksEmptySquares ==
  \A r \in 0..7, c \in 0..7, color \in {WHITE, BLACK} :
    (board[r][c] = None /\ PawnGuards(board, <<r, c>>, color))
      => is_square_attacked(Self, <<r, c>>, color)

\* ---------------------------------------------------------------- C5
\* C5: after any sequence of set_fen / set_startpos, push_move and undo_move calls the
\* signature log holds one entry more than the history.
C5_LogLength == Len(fen_history) = Len(history) + 1

\* a move was undone while another one stays applied
C5_Witness == ret.op = "undo_move" /\ Len(history) >= 1

\* ---------------------------------------------------------------- C6
\* C6: a call of make_move_uci returns a Move or None, and when it returns None the
\* grid, the side to move, the castling rights, the en-passant target, both clocks, the
\* history and the signature log are what they were before the call.
C6_FailedUciChangesNothing ==
  [][ret'.op = "make_move_uci"
       => /\ ret'.val \in {None, "Move"}
          /\ ret'.val = None => UNCHANGED Fields]_vars

\* make_move_uci returned None in a position, reached by a move, where promotions are legal
C6_Witness ==
  /\ ret.op = "make_move_uci"
  /\ ret.val = None
  /\ history # <<>>
  /\ \E m \in SeqRange(generate_moves(Self, TRUE)) : m.promotion # None

\* ---------------------------------------------------------------- C7
WellFormed(uci) ==
  /\ Len(uci) >= 4
  /\ IndexOf(FILES, uci[1]) >= 0 /\ IndexOf(RANKS, uci[2]) >= 0
  /\ IndexOf(FILES, uci[3]) >= 0 /\ IndexOf(RANKS, uci[4]) >= 0

FromSquare(uci) == <<IndexOf(RANKS, uci[2]), IndexOf(FILES, uci[1])>>

ToSquare(uci) == <<IndexOf(RANKS, uci[4]), IndexOf(FILES, uci[3])>>

\* the legal moves for the code's from/to pair include promotions
PromotionPending(uci, legal) ==
  \E m \in SeqRange(legal) :
    m.from_sq = FromSquare(uci) /\ m.to_sq = ToSquare(uci) /\ m.promotion # None

PromotedPiece(letter) == IF turn = WHITE THEN Upper(letter) ELSE Lower(letter)

\* what make_move_uci does with a code whose from/to pair has promotions pending
PromotionOutcome(uci, r) ==
  /\ Len(uci) = 4 => (r.val = None /\ r.b = Self)
  /\ (Len(uci) >= 5 /\ uci[5] \in {"q", "r", "b", "n"}) =>
       /\ r.val = "Move"
       /\ r.b.board[ToSquare(uci)[1]][ToSquare(uci)[2]] = PromotedPiece(uci[5])
       /\ r.b.board[FromSquare(uci)[1]][FromSquare(uci)[2]] = None
       /\ r.b.history[Len(r.b.history)][1].promotion = PromotedPiece(uci[5])

\* C7: when the legal moves for the from/to pair include promotions, make_move_uci fails
\* on the four-character code and, given a fifth character in {q, r, b, n}, applies the
\* promotion to that piece kind in the mover's colour.
C7_PromotionLetterRequired ==
  \A legal \in {generate_moves(Self, TRUE)} :
    \A uci \in UciInputs :
      (WellFormed(uci) /\ PromotionPending(uci, legal))
        => PromotionOutcome(uci, MakeMoveUciFrom(Self, uci, legal))

\* make_move_uci has just applied a promotion of a black pawn
C7_Witness ==
  /\ ret.op = "make_move_uci"
  /\ ret.val = "Move"
  /\ LastMove.promotion \in {"q", "r", "b", "n"}
  /\ board[LastMove.to_sq[1]][LastMove.to_sq[2]] = LastMove.promotion

\* ---------------------------------------------------------------- C8
\* the classification the claim gives, by its priority
Expected ==
  IF generate_moves(Self, TRUE) = <<>>
  THEN (IF find_king(Self, turn) = NoSquare \/ ChessInCheck(board, turn)
        THEN <<"checkmate", Opponent(turn)>>
        ELSE <<"stalemate", None>>)
  ELSE IF halfmove_clock >= 100 THEN <<"draw", None>>
  ELSE IF Cardinality({i \in 1..Len(fen_history) : fen_history[i] = fen_for_repetition(Self)}) >= 3
  THEN <<"draw", None>>
  ELSE <<"ongoing", None>>

\* C8: game_status returns checkmate (the opponent winning) or stalemate when the side
\* to move has no legal move, whatever the clock and the repetitions; else draw when the
\* halfmove clock is at least 100; else draw when the present signature occurs at least
\* three times in the log; else ongoing.
C8_StatusPriority ==
  ret.op = "game_status" => <<ret.val, ret.winner>> = Expected

\* game_status answered checkmate although the halfmove clock had reached 100
C8_Witness ==
  /\ ret.op = "game_status"
  /\ ret.val = "checkmate"
  /\ ret.winner = WHITE
  /\ halfmove_clock >= 100

\* ---------------------------------------------------------------- C9
\* C9: once the applied moves have brought the game to one position (placement, side to
\* move, castling rights, en-passant target) for the third time, game_status returns draw.
C9_ThirdOccurrenceIsDraw ==
  (Applied /\ Occurrences >= 3) => game_status(Self)[1] = "draw"

\* a move has just brought the position back for the third time, far from the 50-move limit
C9_Witness ==
  /\ Applied
  /\ Occurrences >= 3
  /\ halfmove_clock < 50
  /\ game_status(Self)[1] = "draw"

\* ---------------------------------------------------------------- C10
\* the last n applied moves moved no pawn and captured nothing
QuietRun(n) ==
  /\ Len(history) >= n
  /\ \A i \in (Len(history) - n + 1)..Len(history) :
       history[i][1].piece \notin {"P", "p"} /\ history[i][1].captured = None

\* C10: after 100 consecutive applied halfmoves without a pawn move or a capture,
\* game_status returns draw although the side to move still has legal moves.
C10_HundredQuietHalfmovesIsDraw ==
  (QuietRun(100) /\ generate_moves(Self, TRUE) # <<>>) => game_status(Self)[1] = "draw"

\* game_status answered draw right after the hundredth quiet halfmove of a game in which
\* no position has come up three times
C10_Witness ==
  /\ Len(history) = 100
  /\ QuietRun(100)
  /\ generate_moves(Self, TRUE) # <<>>
  /\ Count(fen_history, fen_for_repetition(Self)) < 3
  /\ ret.op = "game_status"
  /\ ret.val = "draw"


\* ---------------------------------------------------------------- C11
RightNames == {"K", "Q", "k", "q"}

\* C11: no applied move turns a castling right from false to true: a right that was
\* cleared at any earlier point of the game is still cleared, and no legal move of the
\* present position sets one.
C11_CastlingRightsNeverReturn ==
  /\ \A i \in 1..Len(history) : \A k \in RightNames :
       castling_rights[k] => history[i][2].castling_rights[k]
  /\ \A m \in SeqRange(generate_moves(Self, TRUE)) : \A k \in RightNames :
       push_move(Self, m).castling_rights[k] => castling_rights[k]

\* a move has just brought the white king back to e1, beside the rook on h1, in a game
\* that began with the king-side right and lost it
C11_Witness ==
  /\ Applied
  /\ history[1][2].castling_rights.K
  /\ ~castling_rights.K
  /\ LastMove.piece = "K"
  /\ board[0][4] = "K" /\ board[0][7] = "R"

\* ---------------------------------------------------------------- C12
DoubleAdvance(m) == m.piece \in {"P", "p"} /\ Abs(m.to_sq[1] - m.from_sq[1]) = 2

PassedOver(m) == <<(m.from_sq[1] + m.to_sq[1]) \div 2, m.from_sq[2]>>

\* C12: after an applied move en_passant_target is set exactly when that move was a pawn
\* two-square advance, and then it is the square the pawn passed over; so an en-passant
\* capture is legal only in reply to the double advance, onto that square.
C12_TargetOnlyAfterDoubleAdvance ==
  Applied =>
    /\ (en_passant_target # NoSquare) <=> DoubleAdvance(LastMove)
    /\ DoubleAdvance(LastMove) => en_passant_target = PassedOver(LastMove)
    /\ \A m \in SeqRange(generate_moves(Self, TRUE)) :
         m.is_en_passant => (DoubleAdvance(LastMove) /\ m.to_sq = PassedOver(LastMove))

\* the move before last was a double advance, the capture was not taken, and the move
\* just applied cleared the target
C12_Witness ==
  /\ Applied
  /\ Len(history) >= 2
  /\ DoubleAdvance(history[Len(history) - 1][1])
  /\ history[Len(history)][2].en_passant_target # NoSquare
  /\ en_passant_target = NoSquare

\* ---------------------------------------------------------------- C13
OpposingPawn(p) == IF p = "P" THEN "p" ELSE "P"

\* C13: an applied en-passant capture takes the opposing pawn off the square on the
\* mover's origin rank and the destination file (the destination square was empty), puts
\* the capturing pawn on the destination square, records the pawn taken as the move's
\* captured piece, leaves every other square as it was and leaves en_passant_target
\* cleared.
C13_EnPassantRemovesPassedPawn ==
  (Applied /\ LastMove.is_en_passant) =>
    LET m == LastMove
        was == history[Len(history)][2].board
        fr == m.from_sq
        to == m.to_sq
    IN /\ was[fr[1]][to[2]] = OpposingPawn(m.piece)
       /\ was[to[1]][to[2]] = None
       /\ board[fr[1]][to[2]] = None
       /\ board[to[1]][to[2]] = m.piece
       /\ board[fr[1]][fr[2]] = None
       /\ m.captured = OpposingPawn(m.piece)
       /\ en_passant_target = NoSquare
       /\ \A r \in 0..7, c \in 0..7 :
            <<r, c>> \notin {fr, to, <<fr[1], to[2]>>} => board[r][c] = was[r][c]

\* White has just captured en passant
C13_Witness ==
  /\ Applied
  /\ LastMove.is_en_passant
  /\ LastMove.piece = "P"
  /\ LastMove.captured = "p"


\* ---------------------------------------------------------------- C14
\* C14: set_fen on a text that is no well-formed FEN (fields missing, a rank empty or of
\* the wrong length, the wrong number of ranks, an unknown piece letter) fails, and it
\* leaves the board object as it was rather than partly updated.
C14_MalformedFenFails ==
  \A fen \in MalformedFens :
    \A r \in {set_fen(Self, fen)} : r.exc /\ r.b = Self

\* ---------------------------------------------------------------- C17
\* C17: on a board without a king of colour c, king_in_check(c) returns True, and with c
\* to move there is no legal move and game_status returns checkmate, the opponent winning.
C17_MissingKingCountsAsCheck ==
  /\ (ret.op = "king_in_check" /\ find_king(Self, ret.color) = NoSquare) => ret.val = "True"
  /\ find_king(Self, turn) = NoSquare => generate_moves(Self, TRUE) = <<>>
  /\ (ret.op = "game_status" /\ find_king(Self, turn) = NoSquare)
       => (ret.val = "checkmate" /\ ret.winner = Opponent(turn))

\* game_status was asked after a move, with the side to move having a piece it could
\* move but no king
C17_Witness ==
  /\ ret.op = "game_status"
  /\ ret.val = "checkmate"
  /\ history # <<>>
  /\ find_king(Self, turn) = NoSquare
  /\ generate_moves(Self, FALSE) # <<>>

\* ---------------------------------------------------------------- C18
\* C18: a call of game_status, generate_moves(legal=True) or king_in_check leaves the
\* grid, the side to move, the castling rights, the en-passant target, both clocks, the
\* history and the signature log unchanged.
C18_QueriesChangeNothing ==
  [][ret'.op \in {"game_status", "generate_moves", "king_in_check"}
       => UNCHANGED Fields]_vars

\* generate_moves has returned legal moves, one of them a capture, in a game under way
C18_Witness ==
  /\ ret.op = "generate_moves"
  /\ history # <<>>
  /\ \E m \in SeqRange(ret.moves) : m.captured # None


\* ---------------------------------------------------------------- C15
\* C15: writing a reachable position out as a FEN string, reading that string back with
\* set_fen and writing the position out again gives the identical string (placement, side
\* to move, castling letters in the same order, en-passant square).
C15_FenRoundTrip ==
  /\ \A r \in {set_fen(Self, fen_for_repetition(Self))} :
       ~r.exc /\ fen_for_repetition(r.b) = fen_for_repetition(Self)
  /\ ret.op = "reparse" => (ret.val = None /\ fen_for_repetition(Self) = ret.fen)

\* a position with all four castling rights and an en-passant target was written out and
\* read back
C15_Witness ==
  /\ ret.op = "reparse"
  /\ en_passant_target # NoSquare
  /\ \A k \in RightNames : castling_rights[k]
  /\ Len(ret.fen) > 40

\* ---------------------------------------------------------------- C16
\* C16: two positions of a game have equal signatures exactly when they agree on the
\* placement, the side to move, the four castling rights and the en-passant target; the
\* halfmove clock and the fullmove number play no part.
C16_SignatureIsThePosition ==
  \A i \in 1..Len(history) :
    (fen_for_repetition(history[i][2]) = fen_for_repetition(Self))
      <=> SamePosition(history[i][2])

\* the game has been in the present position before, with other clocks, and in a position
\* that differs from the present one in the castling rights only
C16_Witness ==
  /\ \E i \in 1..Len(history) :
       /\ SamePosition(history[i][2])
       /\ history[i][2].halfmove_clock # halfmove_clock
       /\ history[i][2].fullmove_number # fullmove_number
  /\ \E j \in 1..Len(history) :
       /\ history[j][2].board = board
       /\ history[j][2].turn = turn
       /\ history[j][2].en_passant_target = en_passant_target
       /\ history[j][2].castling_rights # castling_rights


\* ---------------------------------------------------------------- C19
\* C19: undo_move called with an empty history returns normally and changes nothing: the
\* position fields stay, the history stays empty and the initial signature is not popped.
C19_UndoOnEmptyHistoryIsNoOp ==
  [][(ret'.op = "undo_move" /\ history = <<>>) => UNCHANGED Fields]_vars

\* undo_move has returned on a board that was set up by set_fen and has no move applied:
\* the log still holds the one signature of the position
C19_Witness ==
  /\ ret.op = "undo_move"
  /\ history = <<>>
  /\ fen_history = <<fen_for_repetition(Self)>>
  /\ board # set_startpos(NewBoard).b.board


\* ---------------------------------------------------------------- C20
\* the codes of the moves applied so far
PlayedCodes == [i \in 1..Len(history) |-> Uci(history[i][1])]

FromStartPosition == history # <<>> /\ history[1][2] = Snapshot(set_startpos(NewBoard).b)

\* C20: after f2f3, e7e5, g2g4, d8h4 applied from the start position game_status returns
\* checkmate with Black as the winner.
C20_FoolsMateIsCheckmate ==
  (FromStartPosition /\ PlayedCodes = FoolsMate) =>
    /\ game_status(Self) = <<"checkmate", BLACK>>
    /\ ret.op = "game_status" => (ret.val = "checkmate" /\ ret.winner = BLACK)

\* game_status has answered after the four moves, the last one applied by make_move_uci
C20_Witness ==
  /\ FromStartPosition
  /\ PlayedCodes = FoolsMate
  /\ ret.op = "game_status"
  /\ ret.val = "checkmate"
  /\ ret.winner = BLACK


\* ---------------------------------------------------------------------
\* C21: from the start position generate_moves(legal=True) returns exactly 20 moves, and
\* the numbers of legal moves of the 20 positions those moves lead to add up to 400.
StartPosition == Snapshot(set_startpos(NewBoard).b)

RECURSIVE Replies(_, _)
\* the legal moves of the positions the moves lead to, counted together
Replies(b, moves) ==
  IF moves = <<>> THEN 0
  ELSE Len(generate_moves(push_move(b, Head(moves)), TRUE)) + Replies(b, Tail(moves))

C21_TwentyMovesFourHundredReplies ==
  /\ Snapshot(Self) = StartPosition =>
       /\ Len(generate_moves(Self, TRUE)) = 20
       /\ Replies(Self, generate_moves(Self, TRUE)) = 400
       /\ ret.op = "generate_moves" => Len(ret.moves) = 20
  /\ (ret.op = "generate_moves" /\ Len(history) = 1 /\ history[1][2] = StartPosition) =>
       Len(ret.moves) = 20

\* generate_moves has answered in a position one move after the start position
C21_Witness ==
  /\ ret.op = "generate_moves"
  /\ Len(history) = 1
  /\ history[1][2] = StartPosition
  /\ Len(ret.moves) = 20
  /\ Cardinality({history[1][1]} \cup SeqRange(generate_moves(undo_move(Self), TRUE))) = 20


\* ---------------------------------------------------------------- C22
\* the position the last applied move was made in
Before == history[Len(history)][2]

\* the corner squares and the right, the king and the rook that belong to each
Corner(k) ==
  CASE k = "K" -> <<0, 7>> [] k = "Q" -> <<0, 0>> [] k = "k" -> <<7, 7>> [] k = "q" -> <<7, 0>>

KingOf(k) == IF k \in {"K", "Q"} THEN "K" ELSE "k"

RookOf(k) == IF k \in {"K", "Q"} THEN "R" ELSE "r"

\* the move from -> to on grid makes the right k go: the king of its colour moves, a rook
\* leaves its corner, or the rook of its colour is captured on its corner
ClearsRight(grid, from, to, k) ==
  \/ grid[from[1]][from[2]] = KingOf(k)
  \/ (grid[from[1]][from[2]] \in {"R", "r"} /\ from = Corner(k))
  \/ (grid[to[1]][to[2]] = RookOf(k) /\ to = Corner(k))

RightsAfter(grid, cr, from, to) ==
  [k \in RightNames |-> cr[k] /\ ~ClearsRight(grid, from, to, k)]

\* C22: an applied move clears both rights of a king that moves (castling included), the
\* right of the corner a rook leaves, and the right of the corner on which a rook of
\* that corner's colour is captured; every other right keeps its value.  This holds of
\* the move just applied and of every legal move of the present position.
C22_CastlingRightsUpdate ==
  /\ Applied =>
       castling_rights =
         RightsAfter(Before.board, Before.castling_rights, LastMove.from_sq, LastMove.to_sq)
  /\ \A m \in SeqRange(generate_moves(Self, TRUE)) :
       push_move(Self, m).castling_rights =
         RightsAfter(board, castling_rights, m.from_sq, m.to_sq)

\* the rook from a1 has just captured the rook on a8: both queen-side rights went and
\* both king-side rights stayed
C22_Witness ==
  /\ Applied
  /\ LastMove.from_sq = <<0, 0>> /\ LastMove.to_sq = <<7, 0>> /\ LastMove.captured = "r"
  /\ Before.castling_rights = [K |-> TRUE, Q |-> TRUE, k |-> TRUE, q |-> TRUE]
  /\ castling_rights = [K |-> TRUE, Q |-> FALSE, k |-> TRUE, q |-> FALSE]


\* ---------------------------------------------------------------- C23
\* the home square of the king the right k belongs to
KingHome(k) == IF k \in {"K", "Q"} THEN <<0, 4>> ELSE <<7, 4>>

PieceOn(grid, sq) == grid[sq[1]][sq[2]]

\* C23: in a game played by push_move of legal moves and undo_move, from the start
\* position or from a position of such a game, a castling right that is still true has
\* the king of its colour on e1 (e8) and a rook of its colour on its corner.
C23_RightNeedsKingAndRookAtHome ==
  \A k \in RightNames :
    castling_rights[k] =>
      /\ PieceOn(board, KingHome(k)) = KingOf(k)
      /\ PieceOn(board, Corner(k)) = RookOf(k)

\* the rook from h1 has just captured the rook on h8: the two queen-side rights are all
\* that is left, and a white rook stands on Black's corner
C23_Witness ==
  /\ Applied
  /\ LastMove.to_sq = <<7, 7>> /\ LastMove.captured = "r"
  /\ board[7][7] = "R"
  /\ castling_rights = [K |-> FALSE, Q |-> TRUE, k |-> FALSE, q |-> TRUE]


\* ---------------------------------------------------------------- C24
\* the move from -> to on grid is made by a pawn
MovedByPawn(grid, from) == PieceOn(grid, from) \in {"P", "p"}

\* the move from -> to on grid takes a piece: the one on its destination, or, when a pawn
\* changes file onto an empty square, the pawn it passes
Captures(grid, from, to) ==
  \/ PieceOn(grid, to) # None
  \/ (MovedByPawn(grid, from) /\ from[2] # to[2])

ClockAfter(grid, clock, from, to) ==
  IF MovedByPawn(grid, from) \/ Captures(grid, from, to) THEN 0 ELSE clock + 1

\* C24: an applied move sets the halfmove clock to 0 when a pawn moved or a piece was
\* captured, on the destination or en passant, and otherwise adds exactly 1 to it.  This
\* holds of the move just applied and of every legal move of the present position.
C24_HalfmoveClockUpdate ==
  /\ Applied =>
       halfmove_clock =
         ClockAfter(Before.board, Before.halfmove_clock, LastMove.from_sq, LastMove.to_sq)
  /\ \A m \in SeqRange(generate_moves(Self, TRUE)) :
       push_move(Self, m).halfmove_clock =
         ClockAfter(board, halfmove_clock, m.from_sq, m.to_sq)

\* after a quiet move had taken the clock to 1, a rook has captured a rook and the clock
\* is back at 0
C24_Witness ==
  /\ Applied
  /\ Before.halfmove_clock = 1
  /\ LastMove.piece \in {"R", "r"} /\ LastMove.captured \in {"R", "r"}
  /\ halfmove_clock = 0


\* ---------------------------------------------------------------- C25
\* the game began in the start position
GameFromStart ==
  IF history = <<>> THEN Snapshot(Self) = StartPosition ELSE history[1][2] = StartPosition

\* C25: an applied move hands the move to the other side and adds 1 to the fullmove
\* number exactly when Black made it; so in a game from the start position with n moves
\* in its history White is to move iff n is even, and the fullmove number is 1 + n div 2.
C25_TurnAndFullmoveNumber ==
  /\ Applied =>
       /\ turn = Opponent(Before.turn)
       /\ fullmove_number = Before.fullmove_number + (IF Before.turn = BLACK THEN 1 ELSE 0)
  /\ GameFromStart =>
       /\ (turn = WHITE) <=> (Len(history) % 2 = 0)
       /\ turn \in {WHITE, BLACK}
       /\ fullmove_number = 1 + (Len(history) \div 2)

\* four moves from the start position, the last of them Black's second: move 3, White
\* to play
C25_Witness ==
  /\ Applied
  /\ GameFromStart
  /\ Len(history) = 4
  /\ Before.turn = BLACK /\ Before.fullmove_number = 2
  /\ turn = WHITE /\ fullmove_number = 3


\* ---------------------------------------------------------------- C26
\* a and b are the same move as far as a code can tell, and of the same kind
SameMove(a, b) ==
  /\ a.from_sq = b.from_sq
  /\ a.to_sq = b.to_sq
  /\ a.promotion = b.promotion
  /\ a.is_en_passant = b.is_en_passant
  /\ a.is_castle = b.is_castle

\* make_move_uci(m.uci()) applies the move m
RoundTrips(m, legal) ==
  \A r \in {MakeMoveUciFrom(Self, Uci(m), legal)} :
    /\ r.val = "Move"
    /\ Len(r.b.history) = Len(history) + 1
    /\ SameMove(r.b.history[Len(r.b.history)][1], m)

\* C26: for every legal move m of a position make_move_uci(m.uci()) succeeds and applies
\* a move with m's origin, destination, promotion piece, en-passant flag and castle flag:
\* no two legal moves of a position have the same code.
C26_UciIdentifiesLegalMove ==
  \A legal \in {generate_moves(Self, TRUE)} :
    /\ \A m \in SeqRange(legal) : RoundTrips(m, legal)
    /\ \A i, j \in 1..Len(legal) : Uci(legal[i]) = Uci(legal[j]) => i = j

\* make_move_uci has just applied the capture on d8 that promotes to a knight, one of
\* eight promotions the position offered
C26_Witness ==
  /\ ret.op = "make_move_uci" /\ ret.val = "Move"
  /\ LastMove.promotion = "N" /\ LastMove.captured = "r"
  /\ Uci(LastMove) = <<"e", "7", "d", "8", "n">>
  /\ Cardinality({m \in SeqRange(generate_moves(undo_move(Self), TRUE)) :
                    m.promotion # None}) = 8


\* ---------------------------------------------------------------- C27
\* the right a castling move of the king `piece` to the file to_c uses
CastleRight(piece, to_c) ==
  IF piece = "K" THEN (IF to_c = 6 THEN "K" ELSE "Q") ELSE (IF to_c = 6 THEN "k" ELSE "q")

\* the squares strictly between the king's home square and the corner of the right k
Between(k) ==
  {<<KingHome(k)[1], c>> : c \in IF Corner(k)[2] = 7 THEN {5, 6} ELSE {1, 2, 3}}

\* the square the rook of the right k stands on after castling
RookAfterCastling(k) == <<Corner(k)[1], IF Corner(k)[2] = 7 THEN 5 ELSE 3>>

\* castling by m was allowed on grid under the rights cr
CastlingAllowed(grid, cr, m) ==
  \A k \in {CastleRight(PieceOn(grid, m.from_sq), m.to_sq[2])} :
    /\ m.to_sq \in {<<m.from_sq[1], 6>>, <<m.from_sq[1], 2>>}
    /\ m.from_sq = KingHome(k)
    /\ PieceOn(grid, KingHome(k)) = KingOf(k)
    /\ cr[k]
    /\ PieceOn(grid, Corner(k)) = RookOf(k)
    /\ \A sq \in Between(k) : PieceOn(grid, sq) = None

\* castling by m took grid to after
CastlingDone(grid, after, m) ==
  \A k \in {CastleRight(PieceOn(grid, m.from_sq), m.to_sq[2])} :
    /\ PieceOn(after, m.to_sq) = KingOf(k)
    /\ PieceOn(after, RookAfterCastling(k)) = RookOf(k)
    /\ PieceOn(after, KingHome(k)) = None
    /\ PieceOn(after, Corner(k)) = None

\* C27: a castling move is generated only with the king on its home square, the right of
\* that side set, a rook of the king's colour on that side's corner and every square
\* strictly between them empty; applied, it leaves the king on the g (c) file and the
\* rook on the f (d) file, and the two squares they came from empty.
C27_CastlingGeneratedAndApplied ==
  /\ \A m \in SeqRange(generate_moves(Self, FALSE)) :
       m.is_castle =>
         /\ CastlingAllowed(board, castling_rights, m)
         /\ CastlingDone(board, push_move(Self, m).board, m)
  /\ (Applied /\ LastMove.is_castle) =>
       /\ CastlingAllowed(Before.board, Before.castling_rights, LastMove)
       /\ CastlingDone(Before.board, board, LastMove)

\* White has just castled queen-side, after the knight had left b1
C27_Witness ==
  /\ Applied
  /\ LastMove.is_castle /\ LastMove.to_sq = <<0, 2>>
  /\ Before.board[0][1] = None /\ history[1][2].board[0][1] = "N"
  /\ board[0][2] = "K" /\ board[0][3] = "R" /\ board[0][0] = None /\ board[0][4] = None


\* ---------------------------------------------------------------- C28
\* the pieces a pawn may promote to
PromotionPieces(pawn) == IF pawn = "P" THEN {"Q", "R", "B", "N"} ELSE {"q", "r", "b", "n"}

\* the move m of the piece p lands a pawn on the back rank of the other side
LandsOnBackRank(p, m) ==
  \/ (p = "P" /\ m.to_sq[1] = 7)
  \/ (p = "p" /\ m.to_sq[1] = 0)

\* the generated moves that go from and to where m goes
Alike(moves, m) == SelectSeq(moves, LAMBDA x : x.from_sq = m.from_sq /\ x.to_sq = m.to_sq)

NoPawnOnBackRank(grid) ==
  \A c \in 0..7 : grid[0][c] \notin {"P", "p"} /\ grid[7][c] \notin {"P", "p"}

\* C28: a pawn's push or capture onto the other side's back rank is generated as four
\* moves and no more, one for each of queen, rook, bishop and knight of the pawn's colour,
\* and no other move promotes; applied, such a move leaves the promoted piece on its
\* destination.  So no pawn ever stands on rank 1 or rank 8.
C28_PromotionOnBackRank ==
  /\ \A moves \in {generate_moves(Self, FALSE)} : \A m \in SeqRange(moves) :
       \A p \in {PieceOn(board, m.from_sq)} :
         /\ LandsOnBackRank(p, m) =>
              /\ m.promotion \in PromotionPieces(p)
              /\ Len(Alike(moves, m)) = 4
              /\ {x.promotion : x \in SeqRange(Alike(moves, m))} = PromotionPieces(p)
         /\ ~LandsOnBackRank(p, m) => m.promotion = None
         /\ m.promotion # None =>
              PieceOn(push_move(Self, m).board, m.to_sq) = m.promotion
         /\ NoPawnOnBackRank(push_move(Self, m).board)
  /\ (Applied /\ LastMove.promotion # None) =>
       /\ LandsOnBackRank(PieceOn(Before.board, LastMove.from_sq), LastMove)
       /\ PieceOn(board, LastMove.to_sq) = LastMove.promotion
       /\ PieceOn(board, LastMove.from_sq) = None
  /\ NoPawnOnBackRank(board)

\* Black's pawn has just captured the rook on d1 and stands there as a bishop, after
\* White's pawn had promoted on the move before
C28_Witness ==
  /\ Applied
  /\ LastMove.piece = "p" /\ LastMove.promotion = "b" /\ LastMove.captured = "R"
  /\ board[0][3] = "b"
  /\ Len(history) >= 2 /\ history[Len(history) - 1][1].promotion \in {"Q", "R", "B", "N"}


\* ---------------------------------------------------------------- C29
\* the squares of grid a piece p stands on
SquaresOf(grid, p) == {sq \in (0..7) \X (0..7) : PieceOn(grid, sq) = p}

OneKingEach(grid) ==
  Cardinality(SquaresOf(grid, "K")) = 1 /\ Cardinality(SquaresOf(grid, "k")) = 1

\* C29: in a game played by push_move of legal moves and undo_move, from the start
\* position or from a position of such a game, the board holds exactly one white king and
\* exactly one black king: no legal move, and no move that was applied, captures a king.
C29_OneKingEach ==
  /\ OneKingEach(board)
  /\ \A m \in SeqRange(generate_moves(Self, TRUE)) :
       /\ m.captured \notin {"K", "k"}
       /\ PieceOn(board, m.to_sq) \notin {"K", "k"}
       /\ OneKingEach(push_move(Self, m).board)
  /\ \A i \in 1..Len(history) :
       /\ history[i][1].captured \notin {"K", "k"}
       /\ OneKingEach(history[i][2].board)

\* a move has just given check: the side to move has both kings on the board and fewer
\* legal moves than pseudo-legal ones
C29_Witness ==
  /\ Applied
  /\ king_in_check(Self, turn)
  /\ OneKingEach(board)
  /\ Len(generate_moves(Self, TRUE)) < Len(generate_moves(Self, FALSE))
  /\ generate_moves(Self, TRUE) # <<>>


\* ---------------------------------------------------------------- C30
\* C30: after any calls of set_fen, push_move and undo_move the last entry of the
\* signature log is the signature of the present position; after set_fen the history is
\* empty and the log holds that one signature.
C30_LogEndsWithPresentSignature ==
  /\ fen_history # <<>>
  /\ fen_history[Len(fen_history)] = fen_for_repetition(Self)
  /\ ret.op = "set_fen" => (history = <<>> /\ fen_history = <<fen_for_repetition(Self)>>)


\* ---------------------------------------------------------------- C31
\* C31: for every legal move m of a position, game_status after push_move(m) and
\* undo_move() is what it was before the push, with the log and the clock it reads as
\* they were; and playing m again gives the status m gave the first time: a position
\* that was taken back counts neither as an occurrence nor as a quiet halfmove.
C31_TakenBackMoveLeavesStatus ==
  \A m \in SeqRange(generate_moves(Self, TRUE)) :
    \A after \in {push_move(Self, m)} : \A back \in {undo_move(after)} :
      /\ game_status(back) = game_status(Self)
      /\ back.fen_history = fen_history
      /\ back.halfmove_clock = halfmove_clock
      /\ game_status(push_move(back, m)) = game_status(after)

\* a move has been taken back in a position that is ongoing with the clock at 99: one of
\* its moves mates, one stalemates, one reaches the 50-move limit
C31_Witness ==
  /\ ret.op = "undo_move"
  /\ halfmove_clock = 99
  /\ game_status(Self)[1] = "ongoing"
  /\ {game_status(push_move(Self, m))[1] : m \in SeqRange(generate_moves(Self, TRUE))}
       = {"checkmate", "stalemate", "draw"}


\* ---------------------------------------------------------------- C32
\* the number of pieces on grid
PieceCount(grid) == Cardinality({sq \in (0..7) \X (0..7) : PieceOn(grid, sq) # None})

\* the square the move from -> to on grid takes a piece from: its destination, or, when a
\* pawn changes file onto an empty square, the square beside the pawn; none otherwise
TakenFrom(grid, from, to) ==
  IF PieceOn(grid, to) # None THEN to
  ELSE IF MovedByPawn(grid, from) /\ from[2] # to[2] THEN <<from[1], to[2]>>
  ELSE NoSquare

\* the move m took grid to after and names what it took
TakesWhatItNames(grid, after, m) ==
  \A sq \in {TakenFrom(grid, m.from_sq, m.to_sq)} :
    IF sq = NoSquare
    THEN m.captured = None /\ PieceCount(after) = PieceCount(grid)
    ELSE /\ m.captured = PieceOn(grid, sq)
         /\ PieceCount(after) = PieceCount(grid) - 1
         /\ PieceOn(after, sq) # PieceOn(grid, sq)

\* C32: an applied move takes exactly one piece off the board when it captures, on its
\* destination or en passant, and none otherwise, castling and promotion included; its
\* captured field is the piece that went.  This holds of the move just applied and of
\* every legal move of the present position.
C32_PieceCountAndCaptured ==
  /\ Applied => TakesWhatItNames(Before.board, board, LastMove)
  /\ \A m \in SeqRange(generate_moves(Self, TRUE)) :
       \A after \in {push_move(Self, m)} :
         TakesWhatItNames(board, after.board, after.history[Len(after.history)][1])

\* a pawn has just been captured en passant: the destination was empty and the board has
\* one piece less
C32_Witness ==
  /\ Applied
  /\ LastMove.is_en_passant /\ LastMove.captured = "P"
  /\ PieceOn(Before.board, LastMove.to_sq) = None
  /\ PieceCount(board) = PieceCount(Before.board) - 1


\* ---------------------------------------------------------------- C33
\* the squares of grid that hold a pawn
PawnSquares(grid) == {sq \in (0..7) \X (0..7) : PieceOn(grid, sq) \in {"P", "p"}}

\* the rank a pawn starts on and the way it goes
StartRank(pawn) == IF pawn = "P" THEN 1 ELSE 6

Forward(pawn) == IF pawn = "P" THEN 1 ELSE -1

\* the two-square moves generated for the pawn on sq
DoublePushes(sq) ==
  {m \in SeqRange(piece_moves(Self, sq[1], sq[2], PieceOn(board, sq), TRUE)) :
     Abs(m.to_sq[1] - m.from_sq[1]) = 2}

\* C33: a two-square pawn move is generated only for a pawn on the starting rank of its
\* colour, straight ahead, with the square it passes and the square it lands on both
\* empty; it is no capture and no promotion.
C33_DoublePushFromStartRank ==
  \A sq \in PawnSquares(board) : \A pawn \in {PieceOn(board, sq)} :
    \A m \in DoublePushes(sq) :
      /\ sq[1] = StartRank(pawn)
      /\ m.from_sq = sq
      /\ m.to_sq = <<sq[1] + 2 * Forward(pawn), sq[2]>>
      /\ board[sq[1] + Forward(pawn)][sq[2]] = None
      /\ PieceOn(board, m.to_sq) = None
      /\ m.captured = None /\ m.promotion = None /\ ~m.is_en_passant

\* the knight has just gone to c3, in front of the pawn on c2: that pawn has no double
\* push, the pawn on b2 beside it has one
C33_Witness ==
  /\ Applied
  /\ board[1][2] = "P" /\ board[2][2] = "N" /\ board[3][2] = None
  /\ board[1][1] = "P"
  /\ DoublePushes(<<1, 2>>) = {}
  /\ DoublePushes(<<1, 1>>) # {}


\* ---------------------------------------------------------------- C34
\* the squares of grid that hold a bishop, a rook or a queen
SliderSquares(grid) ==
  {sq \in (0..7) \X (0..7) : PieceOn(grid, sq) \in {"B", "R", "Q", "b", "r", "q"}}

\* the squares the slider on sq may go to by the rules of chess: along a line of its kind
\* with nothing in between, onto an empty square or a piece of the other colour
SliderTargets(grid, sq) ==
  {t \in (0..7) \X (0..7) :
     /\ PieceAttacks(grid, sq[1], sq[2], t)
     /\ \/ PieceOn(grid, t) = None
        \/ (PieceOn(grid, t) \in WhitePieces) # (PieceOn(grid, sq) \in WhitePieces)}

\* C34: the moves generated for a bishop, a rook or a queen go, along each of its rays, to
\* the empty squares before the first occupied one and to that one if it holds a piece
\* of the other colour, once each, and nowhere else: not behind a piece, not onto a piece
\* of the mover's colour.  A move onto a piece names it as captured.
C34_SliderRays ==
  \A sq \in SliderSquares(board) :
    \A moves \in {piece_moves(Self, sq[1], sq[2], PieceOn(board, sq), TRUE)} :
      /\ {m.to_sq : m \in SeqRange(moves)} = SliderTargets(board, sq)
      /\ Len(moves) = Cardinality(SliderTargets(board, sq))
      /\ \A m \in SeqRange(moves) :
           /\ m.from_sq = sq
           /\ m.captured = PieceOn(board, m.to_sq)
           /\ m.promotion = None /\ ~m.is_en_passant /\ ~m.is_castle

\* a pawn has just promoted to a queen: she faces a rook of the other colour with squares
\* behind it she cannot reach, and the way of White's rook ends at its own king
C34_Witness ==
  /\ Applied
  /\ LastMove.promotion = "Q"
  /\ \E t \in SliderTargets(board, LastMove.to_sq) :
       /\ PieceOn(board, t) = "r"
       /\ <<t[1], t[2] - 1>> \notin SliderTargets(board, LastMove.to_sq)
  /\ \E sq \in SliderSquares(board) : \E t \in (0..7) \X (0..7) :
       /\ PieceOn(board, sq) = "R" /\ PieceOn(board, t) = "K"
       /\ PieceAttacks(board, sq[1], sq[2], t)
       /\ t \notin SliderTargets(board, sq)


\* ---------------------------------------------------------------- C35
\* the halfmove clock and the fullmove number written in the last two fields of fen
WrittenClocks(fen) == IF fen = EndingFen THEN <<99, 60>> ELSE <<0, 1>>

MovesOf(h) == [i \in 1..Len(h) |-> h[i][1]]

\* the moves of s are the first moves of t
IsPrefix(s, t) ==
  /\ Len(s) <= Len(t)
  /\ \A i \in 1..Len(s) : SameMove(s[i], t[i])

\* C36: under any interleaving of the clicks on the board, the Undo and New game buttons,
\* the clicks on the move list and the scheduled steps of the replay, in every state where
\* animating is False the moves recorded in board.history are the first moves of
\* full_history_data, so board.history is never the longer of the two.
C36_HistoryIsPrefixOfGame ==
  ~animating => IsPrefix(MovesOf(history), full_history_data)

====
